---------------------------- MODULE Spec2Model ----------------------------
(***************************************************************************)
(* A model of ClaudeAutoResponder: the prompt parser (text window          *)
(* expansion, box extraction, box validation), the duplicate fingerprint   *)
(* and the AutoResponder monitoring loop in single-window and multi-window *)
(* mode, together with the sleep/wake callbacks that run on the sleep      *)
(* detector's thread.                                                      *)
(*                                                                         *)
(* Text.  A terminal text is the sequence of its lines (text.split('\n')). *)
(* A line is the sequence of its whitespace-separated tokens, so the amount *)
(* of white space is not represented.  The tokens are                      *)
(*   "top"   a box top border        (matches  ╭─+╮)                        *)
(*   "bot"   a box bottom border     (matches  ╰─+╯)                        *)
(*   "bar"   a box side border       (│)                                    *)
(*   "dyw"   the phrase "Do you want"                                       *)
(*   "caret" the selection marker    (❯)                                    *)
(*   "yes1"  "1. Yes"                                                       *)
(*   "opt2"  "2. Yes, and don't ask again"                                  *)
(*   "no3"   "3. No"                                                        *)
(*   "dbg"   a debug marker of the responder's own output ("🔍 DEBUG:")     *)
(*   words such as "Edit", "file", "Bash", "command", and "x" for any      *)
(*   other word.                                                           *)
(* The empty string is the text with one empty line, as in Python.         *)
(***************************************************************************)
EXTENDS Integers, Sequences, FiniteSets, TLC

Min(a, b) == IF a <= b THEN a ELSE b

(***************************************************************************)
(* Python slicing: lines[-n:] for 1 <= n; the whole list when n exceeds it. *)
(***************************************************************************)
LastLines(lines, n) ==
    IF n >= Len(lines) THEN lines
    ELSE SubSeq(lines, Len(lines) - n + 1, Len(lines))

(***************************************************************************)
(* The text as one token stream: a regular expression whose \s* or \s+     *)
(* spans white space also spans line breaks.                               *)
(***************************************************************************)
RECURSIVE Flatten(_)
Flatten(lines) ==
    IF lines = <<>> THEN <<>>
    ELSE IF Len(lines) = 1 THEN lines[1]
    ELSE LET half == Len(lines) \div 2
         IN  Flatten(SubSeq(lines, 1, half)) \o Flatten(SubSeq(lines, half + 1, Len(lines)))

InStream(lines, tok) ==
    \E i \in 1..Len(lines) : \E j \in 1..Len(lines[i]) : lines[i][j] = tok

\* str.lower() on a word
Lower(w) ==
    CASE w = "Edit" -> "edit"
      [] w = "EDIT" -> "edit"
      [] w = "File" -> "file"
      [] w = "Bash" -> "bash"
      [] w = "Task" -> "task"
      [] OTHER -> w

LowerWords(ws) == [i \in 1..Len(ws) |-> Lower(ws[i])]

\* pat is a contiguous run of words of the line (a substring within the line)
ContainsWords(line, pat) ==
    \E i \in 0..(Len(line) - Len(pat)) :
        \A j \in 1..Len(pat) : line[i + j] = pat[j]

\* needle.lower() in text.lower(), for a needle of words separated by blanks
InTextLower(lines, needle) ==
    \E i \in 1..Len(lines) :
        ContainsWords(LowerWords(lines[i]), LowerWords(needle))


(***************************************************************************)
(* core/utils.py                                                           *)
(***************************************************************************)
LINES_TO_CAPTURE == 500
INITIAL_LINES == 15
EXPANSION_STEP == 10
MAX_LINES == 500

\* the marker anywhere, whichever option it stands next to
HasCaret(lines) == InStream(lines, "caret")

\* re: ❯\s*1\.\s*Yes  (the marker, white space or line breaks, "1. Yes")
HasCaretOption1(lines) ==
    LET s == Flatten(lines)
    IN  \E i \in 1..(Len(s) - 1) : s[i] = "caret" /\ s[i + 1] = "yes1"

\* re: Do\s+you\s+want, IGNORECASE
HasDoYouWant(lines) == InStream(lines, "dyw")

\* re: 2\.\s*Yes,?\s*and\s*don'?t\s*ask\s*again
HasOption2(lines) == InStream(lines, "opt2")

\* re (MULTILINE): ^\s*╰─+╯\s*$  and  ^\s*╭─+╮\s*$ : a line that is only the border
HasBoxEndLine(lines) == \E i \in 1..Len(lines) : lines[i] = <<"bot">>
HasBoxStartLine(lines) == \E i \in 1..Len(lines) : lines[i] = <<"top">>

\* the tool_indicators of _extract_recent_text_dynamic
tool_indicators ==
    { <<"edit", "file">>, <<"read", "file">>, <<"bash">>, <<"write">>,
      <<"multiedit">>, <<"grep">>, <<"glob">>, <<"ls">>, <<"webfetch">>,
      <<"websearch">>, <<"task">> }

HasToolContent(lines) == \E ind \in tool_indicators : InTextLower(lines, ind)

(***************************************************************************)
(* _extract_recent_text_dynamic: the loop from a window of `current`       *)
(* trailing lines.  The result is [halts, text]; halts is FALSE when the   *)
(* loop can make no progress and never returns: the end markers are        *)
(* missing, the window has reached MAX_LINES and the text is longer.       *)
(***************************************************************************)
RECURSIVE ExpandFrom(_, _)
ExpandFrom(lines, current_lines) ==
    LET total_lines == Len(lines)
        recent_text == LastLines(lines, current_lines)
        has_box_end == HasBoxEndLine(recent_text)
        has_option == HasCaretOption1(recent_text)
        grown == Min(Min(current_lines + EXPANSION_STEP, total_lines), MAX_LINES)
    IN  IF current_lines > Min(MAX_LINES, total_lines)
        THEN [halts |-> TRUE, text |-> recent_text]
        ELSE IF ~(has_box_end /\ has_option)
        THEN IF current_lines >= total_lines
             THEN [halts |-> TRUE, text |-> recent_text]
             ELSE IF grown = current_lines
                  THEN [halts |-> FALSE, text |-> <<>>]
                  ELSE ExpandFrom(lines, grown)
        ELSE IF HasBoxStartLine(recent_text) /\ HasToolContent(recent_text)
        THEN [halts |-> TRUE, text |-> recent_text]
        ELSE IF current_lines >= total_lines \/ current_lines >= MAX_LINES
        THEN [halts |-> TRUE, text |-> recent_text]
        ELSE ExpandFrom(lines, grown)

\* a call whose first window is EXPANSION_STEP lines
extract_from_step_window(text) ==
    ExpandFrom(text, Min(EXPANSION_STEP, Len(text)))

extract_recent_text_dynamic(text) ==
    ExpandFrom(text, Min(INITIAL_LINES, Len(text)))

extract_recent_text(text) == extract_recent_text_dynamic(text)

(***************************************************************************)
(* models/prompt.py                                                        *)
(***************************************************************************)
NoTool == <<>>

ClaudePrompt ==
    [is_valid |-> FALSE, has_do_you_want |-> FALSE,
     has_caret_on_option1 |-> FALSE, has_option2 |-> FALSE,
     has_box_structure |-> FALSE, detected_tool |-> NoTool]

\* option 2 offered only by a prompt that validated
option_of_valid_prompt(prompt) ==
    IF prompt.is_valid /\ prompt.has_option2 THEN "2" ELSE "1"

option_to_select(prompt) == IF prompt.has_option2 THEN "2" ELSE "1"

(***************************************************************************)
(* detection/parser.py                                                     *)
(***************************************************************************)
\* box_top_pattern.match(line), box_bottom_pattern.match(line): at the line's start
IsBoxTop(line) == Len(line) > 0 /\ line[1] = "top"
IsBoxBottom(line) == Len(line) > 0 /\ line[1] = "bot"

(***************************************************************************)
(* _extract_claude_boxes.  BoxInner is the inner while loop: i is the index *)
(* (1-based) of the next line to append, box_lines the box so far.  It     *)
(* yields [i, box, found]: the outer index to go on from.                  *)
(***************************************************************************)
\* a box taken to end at the first bottom border that follows its top
RECURSIVE BoxToFirstBottom(_, _, _, _)
BoxToFirstBottom(lines, i, box_lines, nested_level) ==
    IF i > Len(lines) THEN [i |-> i, box |-> box_lines, found |-> FALSE]
    ELSE IF IsBoxBottom(lines[i])
    THEN [i |-> i, box |-> Append(box_lines, lines[i]), found |-> TRUE]
    ELSE BoxToFirstBottom(lines, i + 1, Append(box_lines, lines[i]), nested_level)

RECURSIVE BoxInner(_, _, _, _)
BoxInner(lines, i, box_lines, nested_level) ==
    IF i > Len(lines) THEN [i |-> i, box |-> box_lines, found |-> FALSE]
    ELSE LET bl == Append(box_lines, lines[i])
             nl == IF IsBoxTop(lines[i]) THEN nested_level + 1
                   ELSE IF IsBoxBottom(lines[i]) THEN nested_level - 1
                   ELSE nested_level
         IN  IF ~IsBoxTop(lines[i]) /\ IsBoxBottom(lines[i]) /\ nl = 0
             THEN [i |-> i, box |-> bl, found |-> TRUE]
             ELSE IF Len(bl) > LINES_TO_CAPTURE
             THEN [i |-> i, box |-> bl, found |-> FALSE]
             ELSE BoxInner(lines, i + 1, bl, nl)

RECURSIVE BoxOuter(_, _, _)
BoxOuter(lines, i, boxes) ==
    IF i > Len(lines) THEN boxes
    ELSE IF IsBoxTop(lines[i])
         THEN LET r == BoxInner(lines, i + 1, <<lines[i]>>, 1)
              IN  BoxOuter(lines, r.i,
                           IF r.found THEN Append(boxes, r.box) ELSE boxes)
         ELSE BoxOuter(lines, i + 1, boxes)

extract_claude_boxes(text) == BoxOuter(text, 1, <<>>)

\* len(tool) in characters
WordLen(w) ==
    CASE w \in {"Edit", "edit", "EDIT", "file", "File", "Bash", "bash", "Task", "task", "Read"} -> 4
      [] w = "command" -> 7
      [] w = "files" -> 5
      [] OTHER -> 1

RECURSIVE CharLen(_)
CharLen(tool) ==
    IF tool = <<>> THEN 0
    ELSE IF Len(tool) = 1 THEN WordLen(tool[1])
    ELSE WordLen(Head(tool)) + 1 + CharLen(Tail(tool))

RemoveAt(s, k) == [i \in 1..(Len(s) - 1) |-> IF i < k THEN s[i] ELSE s[i + 1]]

\* the tools in the order of the whitelist
InListOrder(tools) == tools

\* sorted(tools, key=len, reverse=True): longest first, stable among equals
RECURSIVE SortedByLen(_)
SortedByLen(tools) ==
    IF tools = <<>> THEN <<>>
    ELSE LET k == CHOOSE i \in 1..Len(tools) :
                    /\ \A j \in 1..Len(tools) : CharLen(tools[j]) <= CharLen(tools[i])
                    /\ \A j \in 1..(i - 1) : CharLen(tools[j]) < CharLen(tools[i])
         IN  <<tools[k]>> \o SortedByLen(RemoveAt(tools, k))

RECURSIVE FirstMatch(_, _)
FirstMatch(sorted_tools, box_content) ==
    IF sorted_tools = <<>> THEN NoTool
    ELSE IF InTextLower(box_content, Head(sorted_tools)) THEN Head(sorted_tools)
    ELSE FirstMatch(Tail(sorted_tools), box_content)

detect_tool_in_box(box_content, whitelisted_tools) ==
    FirstMatch(SortedByLen(whitelisted_tools), box_content)

\* a validation that sets the box flag only once the marker check has passed
validate_box_flag_late(box_content, prompt, whitelisted_tools) ==
    IF ~HasDoYouWant(box_content) \/ ~HasCaretOption1(box_content)
    THEN [ok |-> FALSE, prompt |-> prompt]
    ELSE LET tool == detect_tool_in_box(box_content, whitelisted_tools)
         IN  [ok |-> tool # NoTool,
              prompt |-> [prompt EXCEPT !.has_box_structure = TRUE,
                                        !.has_option2 = HasOption2(box_content),
                                        !.detected_tool = tool]]

(***************************************************************************)
(* _validate_box_content: [ok, prompt], the prompt with the fields the     *)
(* checks have set up to the first failing one.                            *)
(***************************************************************************)
validate_box_content(box_content, prompt, whitelisted_tools) ==
    IF ~HasDoYouWant(box_content) THEN [ok |-> FALSE, prompt |-> prompt]
    ELSE LET p1 == [prompt EXCEPT !.has_box_structure = TRUE]
         IN  IF ~HasCaretOption1(box_content) THEN [ok |-> FALSE, prompt |-> p1]
             ELSE LET tool == detect_tool_in_box(box_content, whitelisted_tools)
                      p2 == [p1 EXCEPT !.has_option2 = HasOption2(box_content),
                                       !.detected_tool = tool]
                  IN  [ok |-> tool # NoTool, prompt |-> p2]

\* the boxes validated from the last one up
RECURSIVE ValidateBoxesFromEnd(_, _, _)
ValidateBoxesFromEnd(claude_boxes, prompt, whitelisted_tools) ==
    IF claude_boxes = <<>> THEN prompt
    ELSE LET r == validate_box_content(claude_boxes[Len(claude_boxes)], prompt,
                                       whitelisted_tools)
         IN  IF r.ok THEN [r.prompt EXCEPT !.is_valid = TRUE]
             ELSE ValidateBoxesFromEnd(SubSeq(claude_boxes, 1, Len(claude_boxes) - 1),
                                       r.prompt, whitelisted_tools)

RECURSIVE ValidateBoxes(_, _, _)
ValidateBoxes(claude_boxes, prompt, whitelisted_tools) ==
    IF claude_boxes = <<>> THEN prompt
    ELSE LET r == validate_box_content(Head(claude_boxes), prompt, whitelisted_tools)
         IN  IF r.ok THEN [r.prompt EXCEPT !.is_valid = TRUE]
             ELSE ValidateBoxes(Tail(claude_boxes), r.prompt, whitelisted_tools)

IsEmptyText(text) == text = << <<>> >>

\* the prompt object of the call before, taken up again
carried_prompt(previous) == previous

\* prompt = ClaudePrompt() (33): a new object, whatever the call before returned
new_prompt(previous) == ClaudePrompt

\* parse_prompt from line 33 on, on a text on which the window expansion
\* halts; previous is the prompt the parser's last call returned
ParseWindowAfter(previous, recent_text, whitelisted_tools) ==
    LET p0 == [new_prompt(previous) EXCEPT
                  !.has_do_you_want = HasDoYouWant(recent_text),
                  !.has_caret_on_option1 = HasCaretOption1(recent_text)]
    IN  IF p0.has_do_you_want /\ p0.has_caret_on_option1
        THEN ValidateBoxes(extract_claude_boxes(recent_text), p0, whitelisted_tools)
        ELSE p0

\* parse_prompt on a text on which the window expansion halts
ParseWindow(recent_text, whitelisted_tools) ==
    ParseWindowAfter(ClaudePrompt, recent_text, whitelisted_tools)

\* parse_prompt: [halts, prompt]
parse_prompt(text, whitelisted_tools) ==
    IF IsEmptyText(text) THEN [halts |-> TRUE, prompt |-> ClaudePrompt]
    ELSE LET w == extract_recent_text(text)
         IN  IF ~w.halts THEN [halts |-> FALSE, prompt |-> ClaudePrompt]
             ELSE [halts |-> TRUE, prompt |-> ParseWindow(w.text, whitelisted_tools)]


(***************************************************************************)
(* detection/incremental_scanner.py                                        *)
(***************************************************************************)
INITIAL_SCAN_LINES == 50
EXPANSION_INCREMENT == 100
MAX_SCAN_LINES == 2000
ContextLines == 5
FallbackLines == 200

\* an optional text: None, or a text
None == [some |-> FALSE]
Some(text) == [some |-> TRUE, text |-> text]
\* Python's "not text": None or the empty string
IsFalsy(t) == ~t.some \/ IsEmptyText(t.text)

(***************************************************************************)
(* _extract_box_content: the last box bottom, the nearest box top above    *)
(* it, and five lines of context around them; the last 200 lines when no   *)
(* such pair exists.                                                       *)
(***************************************************************************)
extract_box_content(lines) ==
    LET bottoms == {i \in 1..Len(lines) : IsBoxBottom(lines[i])}
        box_end == IF bottoms = {} THEN 0
                   ELSE CHOOSE i \in bottoms : \A j \in bottoms : j <= i
        tops == {i \in 1..Len(lines) : i < box_end /\ IsBoxTop(lines[i])}
        box_start == IF tops = {} THEN 0
                     ELSE CHOOSE i \in tops : \A j \in tops : j <= i
    IN  IF box_start # 0 /\ box_end # 0
        THEN SubSeq(lines,
                    IF box_start - ContextLines < 1 THEN 1 ELSE box_start - ContextLines,
                    Min(Len(lines), box_end + ContextLines - 1))
        ELSE LastLines(lines, FallbackLines)

RECURSIVE ScanFrom(_, _)
ScanFrom(lines, scan_size) ==
    LET total_lines == Len(lines)
        scan_window == LastLines(lines, scan_size)
        has_box_bottom == InStream(scan_window, "bot")
        has_caret == HasCaretOption1(scan_window)
        has_box_top == InStream(scan_window, "top")
        has_do_you_want == HasDoYouWant(scan_window)
    IN  IF scan_size > Min(MAX_SCAN_LINES, total_lines) THEN None
        ELSE IF ~has_box_bottom \/ ~has_caret THEN None
        ELSE IF has_box_top /\ has_do_you_want
        THEN Some(extract_box_content(scan_window))
        ELSE IF scan_size >= Min(MAX_SCAN_LINES, total_lines) THEN None
        ELSE ScanFrom(lines, Min(Min(scan_size + EXPANSION_INCREMENT,
                                     MAX_SCAN_LINES), total_lines))

find_prompt_window(full_text) ==
    IF IsEmptyText(full_text) THEN None
    ELSE ScanFrom(full_text, Min(INITIAL_SCAN_LINES, Len(full_text)))

(***************************************************************************)
(* detection/terminal.py                                                   *)
(***************************************************************************)
\* the AppleScript of get_window_text / get_window_text_by_id: the last
\* max_lines paragraphs of the window's contents
TailOfScreen(contents, max_lines) == LastLines(contents, max_lines)

(***************************************************************************)
(* get_window_text_incremental, given what get_window_text(50) returned.   *)
(* The scanner's window always holds a box top (the extracted box starts   *)
(* at one, and the fallback is the whole of a text of at most 50 lines     *)
(* that has one), so the first test of the while loop returns it and the   *)
(* larger fetches of lines 173-192 are never made.                         *)
(***************************************************************************)
get_window_text_incremental(initial_text) ==
    IF IsFalsy(initial_text) THEN None
    ELSE LET prompt_window == find_prompt_window(initial_text.text)
         IN  IF IsFalsy(prompt_window) THEN initial_text
             ELSE prompt_window

(***************************************************************************)
(* core/responder.py: the duplicate fingerprint of _check_text_for_prompt. *)
(* hash() is taken as injective: the fingerprint is the text it hashes.    *)
(***************************************************************************)
HashLines == 100
HashElements == 20

hash_indicators ==
    { <<"dyw">>, <<"caret">>, <<"yes1">>, <<"opt2">>, <<"edit", "file">>,
      <<"read", "file">>, <<"bash">>, <<"write">>, <<"multiedit">>, <<"grep">>,
      <<"glob">>, <<"ls">>, <<"webfetch">>, <<"websearch">> }

IsPromptElement(line) ==
    /\ \E ind \in hash_indicators : ContainsWords(LowerWords(line), ind)
    /\ ~ContainsWords(line, <<"dbg">>)

RECURSIVE PromptElements(_)
PromptElements(lines) ==
    IF lines = <<>> THEN <<>>
    ELSE (IF IsPromptElement(Head(lines)) THEN <<Head(lines)>> ELSE <<>>)
         \o PromptElements(Tail(lines))

prompt_hash(text) ==
    LastLines(PromptElements(LastLines(text, HashLines)), HashElements)


(***************************************************************************)
(* The terminal contents the environment may show.                         *)
(***************************************************************************)
Box(tool_line, options) ==
    << <<"top">>, <<"bar">> \o tool_line \o <<"bar">>, <<"bar", "dyw", "bar">> >>
    \o options \o << <<"bot">> >>

\* a shell with no dialog
ShellText == << <<"x">>, <<"x", "x">> >>
\* "Edit file" dialog offering 1. Yes / 3. No
EditDialog ==
    ShellText \o Box(<<"Edit", "file">>,
                     << <<"bar", "caret", "yes1", "bar">>, <<"bar", "no3", "bar">> >>)
\* the same dialog offering "2. Yes, and don't ask again" as well
EditDialog2 ==
    ShellText \o Box(<<"Edit", "file">>,
                     << <<"bar", "caret", "yes1", "bar">>, <<"bar", "opt2", "bar">>,
                        <<"bar", "no3", "bar">> >>)
\* "Bash command" dialog with the second option
BashDialog ==
    ShellText \o Box(<<"Bash", "command">>,
                     << <<"bar", "caret", "yes1", "bar">>, <<"bar", "opt2", "bar">>,
                        <<"bar", "no3", "bar">> >>)

Screens == {ShellText, EditDialog, EditDialog2, BashDialog}

\* a 16-line "Edit file" dialog whose body shows a bordered region
NestedDialog ==
    Box(<<"Edit", "file">>,
        << <<"top">>, <<"bar", "x", "bar">>, <<"bot">> >>
        \o [i \in 1..7 |-> <<"bar", "x", "bar">>]
        \o << <<"bar", "bash", "x", "bar">>, <<"bar", "caret", "yes1", "bar">> >>)
\* an "Edit file" dialog of more lines than the first fetch asks for
LongDialogBody == 48
LongDialog ==
    Box(<<"Edit", "file">>,
        [i \in 1..LongDialogBody |-> <<"bar", "x", "bar">>]
        \o << <<"bar", "caret", "yes1", "bar">>, <<"bar", "no3", "bar">> >>)
\* the dialogs that can be held on the screen for as long as the responder runs
ValidDialogs == {EditDialog, EditDialog2, BashDialog, NestedDialog, LongDialog}

\* config.whitelisted_tools: entries of the default list, in its order
whitelisted_tools == << <<"Edit", "file">>, <<"Bash", "command">>, <<"Bash">> >>


(***************************************************************************)
(* core/responder.py: the AutoResponder and its environment.               *)
(*                                                                         *)
(* The monitoring loop runs on the main thread; on_sleep and on_wake run   *)
(* on the sleep detector's thread and write the responder's fields with no *)
(* synchronisation.  A step of the loop is the code from one blocking      *)
(* collaborator call (AppleScript, subprocess, sleep) to the next; the     *)
(* stores of on_wake and of the two start-countdown methods are steps of   *)
(* their own, since the other thread can run between them.                 *)
(***************************************************************************)
Windows == {"w1", "w2"}
\* get_all_terminal_windows: the open terminal windows in enumeration order
WindowList == <<"w1", "w2">>
\* what is frontmost: a terminal window, an application that is no terminal,
\* or nothing that System Events can name (get_frontmost_app returns None)
FocusValues == Windows \cup {"other", "none"}

\* config.default_timeout, in seconds
default_timeout == 2
\* time.time() when monitoring starts, and how long the clock is followed
Epoch == 10
MaxTicks == 3
\* _check_text_for_prompt: no new countdown within 2.0 s of last_response_time
RateLimitSeconds == 2
\* _recently_cancelled: within 5.0 s of the last cancellation
RecentCancelSeconds == 5
\* get_window_text(max_lines=500): countdown re-validation and final validation
ValidationLines == 500
\* _get_window_text_incremental (multi-window): max_lines=1000
MultiWindowLines == 1000

NoPrompt == [none |-> TRUE]
NoWindow == "none"
Unset == [set |-> FALSE]
Set(v) == [set |-> TRUE, value |-> v]

VARIABLES
    self,        \* the AutoResponder's fields
    enable_sleep_detection,   \* config.enable_sleep_detection
    pc,          \* where the main thread is in start_monitoring's loop
    current_time,\* the cycle's time.time() (_monitoring_cycle)
    option,      \* single-window: the option passed to send_response
    scan,        \* multi-window: the windows still to check in this cycle
    found,       \* a prompt (and its window) detected, its countdown being started
    wpc,         \* where the sleep detector's thread is
    focus,       \* the frontmost window or application
    now,         \* the clock
    keys,        \* the keys the current cycle has sent: <<[key, ok], ...>>
    notice,      \* the last notice the current cycle has printed
    parsed,      \* the last parse result of the current cycle
    polled,      \* what the current cycle's _check_escape_key met, or "unpolled"
    began,       \* [countdown, expired]: how the current cycle began
    accepted,    \* the prompt recorded by the latest countdown start
    last,        \* how the latest session ended, until the next one starts
    fetched,     \* the windows whose text the current cycle has asked for
    given,       \* the input handed to a function that is run on its own
    returned,    \* what that function has returned, step by step
    stopped      \* how many times "Stopped monitoring" has been printed

vars == <<self, enable_sleep_detection, pc, current_time, option, scan, found,
          wpc, focus, now, keys, notice, parsed, polled, began, accepted,
          last, fetched, given, returned, stopped>>

\* AutoResponder.__init__
InitSelf(monitor_all) ==
    [monitor_all |-> monitor_all,
     running |-> FALSE,
     stop_event |-> FALSE,
     last_response_time |-> 0,
     is_in_countdown |-> FALSE,
     countdown_start_time |-> 0,
     countdown_prompt |-> NoPrompt,
     countdown_window_info |-> NoWindow,
     original_focused_window |-> NoWindow,
     is_paused_for_sleep |-> FALSE,
     last_prompt_hash |-> Unset,
     last_cancellation_time |-> Unset]

NoFound == [prompt |-> NoPrompt, window |-> NoWindow]
\* the responder is running: no text is handed to the parser from outside
NoInput == [stray |-> FALSE, blocks |-> <<>>, whitelist |-> <<>>]
NoBegan == [countdown |-> FALSE, expired |-> FALSE]
\* no session has ended since the latest start
NoLast == [how |-> "none", prompt |-> NoPrompt, at |-> 0]

Init ==
    /\ \E m \in BOOLEAN : self = InitSelf(m)
    /\ enable_sleep_detection \in BOOLEAN
    /\ pc = "init"
    /\ current_time = 0
    /\ option = "none"
    /\ scan = <<>>
    /\ found = NoFound
    /\ wpc = "awake"
    /\ focus \in FocusValues
    /\ now = Epoch
    /\ keys = <<>>
    /\ notice = "none"
    /\ parsed = NoPrompt
    /\ polled = "unpolled"
    /\ began = NoBegan
    /\ accepted = NoPrompt
    /\ last = NoLast
    /\ fetched = <<>>
    /\ given = NoInput
    /\ returned = <<>>
    /\ stopped = 0

(***************************************************************************)
(* Helpers of the responder.                                               *)
(***************************************************************************)
\* a clearing that leaves the fingerprint where it is
keep_detection_state(s) == s

\* _clear_detection_state
clear_detection_state(s) ==
    [s EXCEPT !.last_prompt_hash = Unset, !.last_response_time = 0]

\* a handler that takes any countdown as expired
countdown_elapsed_at_once(s, t) == t - s.countdown_start_time >= 0

\* _handle_active_countdown 305-308, _handle_multi_window_countdown 609-612:
\* the countdown has run for the configured delay at the cycle's time t
countdown_elapsed(s, t) == t - s.countdown_start_time >= default_timeout

\* a validation that accepts any valid prompt, whatever tool it names
same_prompt_any_tool(current, recorded) == current.is_valid

\* _final_pre_keystroke_validation checks 3-4, _validate_window_prompt
\* 690-691: the fresh parse is valid and names the recorded tool; reading the
\* tool off a countdown_prompt of None raises, which both methods catch
same_prompt(current, recorded) ==
    /\ current.is_valid
    /\ recorded # NoPrompt
    /\ current.detected_tool = recorded.detected_tool

\* a start that leaves the start time as it was
start_countdown_untimed(s, t) == [s EXCEPT !.is_in_countdown = TRUE]

\* _handle_claude_prompt 298-299, _start_multi_window_countdown 600-601
start_countdown(s, t) ==
    [s EXCEPT !.is_in_countdown = TRUE, !.countdown_start_time = t]

\* _recently_cancelled
recently_cancelled(s, t) ==
    s.last_cancellation_time.set
    /\ t - s.last_cancellation_time.value < RecentCancelSeconds

\* a cancellation that records no cancellation time
cancel_countdown_untimed(s, t) ==
    IF s.is_in_countdown
    THEN [s EXCEPT !.is_in_countdown = FALSE,
                   !.countdown_prompt = NoPrompt,
                   !.countdown_start_time = 0,
                   !.countdown_window_info = NoWindow,
                   !.original_focused_window = NoWindow,
                   !.last_prompt_hash = Unset,
                   !.last_response_time = 0]
    ELSE s

\* _cancel_countdown: the fields after the call at time t (nothing happens
\* unless a countdown is active)
cancel_countdown(s, t) ==
    IF s.is_in_countdown
    THEN [clear_detection_state(s) EXCEPT
             !.is_in_countdown = FALSE,
             !.countdown_prompt = NoPrompt,
             !.countdown_start_time = 0,
             !.countdown_window_info = NoWindow,
             !.original_focused_window = NoWindow,
             !.last_cancellation_time = Set(t)]
    ELSE s

\* _cancel_countdown, lines 368-388: whether it calls restore_focus
cancel_restores(s, current_focus) ==
    /\ s.is_in_countdown /\ s.monitor_all
    /\ s.original_focused_window # NoWindow /\ s.countdown_window_info # NoWindow
    /\ current_focus # NoWindow /\ current_focus # s.original_focused_window

\* the notice _cancel_countdown prints
cancel_notice(s, reason, other) == IF s.is_in_countdown THEN reason ELSE other

\* a focus test that takes any application for a terminal
is_terminal_or_other(frontmost_app) == frontmost_app # NoWindow

\* is_focused: the frontmost bundle id is in TERMINAL_BUNDLE_IDS
is_terminal(frontmost_app) == frontmost_app \in Windows

\* get_frontmost_app / get_focused_window_info: the frontmost one, or None
get_frontmost_app == focus

\* the terminal holds one screen, readable, and no key is pressed
Steady == "screen" \in DOMAIN given

\* get_window_text(max_lines): the focused terminal's tail, "" for another
\* application, None on failure
FrontTextResults(max_lines) ==
    IF focus \notin Windows THEN {Some(<< <<>> >>), None}
    ELSE IF Steady THEN {Some(TailOfScreen(given.screen, max_lines))}
    ELSE {Some(TailOfScreen(t, max_lines)) : t \in Screens} \cup {None}

\* get_window_text_by_id(app, id, max_lines)
WindowTextResults(max_lines) ==
    {Some(TailOfScreen(t, max_lines)) : t \in Screens} \cup {None}

\* what _check_escape_key can meet on standard input: no byte waiting, an
\* ESC byte, another byte, or select()/termios failing
StdinStates == {"none", "esc", "other", "error"}
StdinResults == IF Steady THEN {"none"} ELSE StdinStates
\* a poll that takes any byte read for the cancel key
any_byte_cancels(input) == input \in {"esc", "other"}
\* _check_escape_key: True only when the byte it read is ESC (27)
check_escape_key(input) == input = "esc"

\* the confirmation key alone, whatever the option
EnterOnly(opt) == {<<[key |-> "enter", ok |-> e]>> : e \in BOOLEAN}

\* MacOSKeystrokeSender.send_response after the validation: the keys it
\* sends, each with send_key's result
KeyRuns(opt) ==
    IF opt = "2"
    THEN {<<[key |-> "2", ok |-> TRUE], [key |-> "enter", ok |-> e]>> : e \in BOOLEAN}
         \cup {<<[key |-> "2", ok |-> FALSE], [key |-> "down", ok |-> d],
                 [key |-> "enter", ok |-> e]>> : d \in BOOLEAN, e \in BOOLEAN}
    ELSE {<<[key |-> "enter", ok |-> e]>> : e \in BOOLEAN}


(***************************************************************************)
(* The texts the responder can be handed, and what its pure functions make *)
(* of each: computed once, looked up by the actions.                       *)
(***************************************************************************)
\* a table computed once, entry by entry, before the search
Tabulated(f) == f @@ f

FetchSizes == {INITIAL_SCAN_LINES, ValidationLines, MultiWindowLines}
\* the fetched texts the tables hold, those of up to INITIAL_SCAN_LINES
\* lines: a longer text is fetched only by a countdown cycle for a dialog of
\* more lines, and no behaviour starts one (a table applied outside its
\* domain is an error TLC reports)
FetchedTexts ==
    {x \in {TailOfScreen(t, n) : t \in Screens \cup ValidDialogs, n \in FetchSizes} :
        Len(x) <= INITIAL_SCAN_LINES}
IncrementalOf ==
    Tabulated([t \in FetchedTexts |-> get_window_text_incremental(Some(t))])
ScannedTexts == {IncrementalOf[t].text : t \in {u \in FetchedTexts : IncrementalOf[u].some}}
RecentOf == Tabulated([t \in FetchedTexts \cup ScannedTexts |-> extract_recent_text(t)])
RecentTexts == {RecentOf[t].text : t \in {u \in DOMAIN RecentOf : RecentOf[u].halts}}
PromptOf ==
    Tabulated([t \in FetchedTexts \cup RecentTexts |-> parse_prompt(t, whitelisted_tools)])
HashOf == Tabulated([t \in ScannedTexts |-> prompt_hash(t)])

\* parse_prompt(_extract_recent_text(text)): [halts, prompt]
ParseRecent(text) ==
    IF RecentOf[text].halts THEN PromptOf[RecentOf[text].text]
    ELSE [halts |-> FALSE, prompt |-> ClaudePrompt]

\* how a cycle begins: in a countdown or not, the delay elapsed or not
BeganNow ==
    [countdown |-> self.is_in_countdown,
     expired |-> self.is_in_countdown /\ countdown_elapsed(self, now)]

\* the notice printed whether or not the responder was running
StoppedAlways(s) == stopped + 1

\* stop_monitoring 124-126: the fields (the calls of 128-137 are made where
\* the action needs them)
stop_monitoring(s) ==
    IF s.running THEN [s EXCEPT !.running = FALSE, !.stop_event = TRUE] ELSE s
\* stop_monitoring 124, 139: the notice is printed inside the if
StoppedAfter(s) == IF s.running THEN stopped + 1 ELSE stopped

\* the condition of the loop of start_monitoring (98)
LoopCondition(s) == s.running /\ ~s.stop_event

\* the cycle ends: the loop sleeps check_interval and tests its condition again
EndCycleWith(s, n, l) ==
    /\ self' = s /\ notice' = n /\ pc' = "loop" /\ current_time' = 0
    /\ stopped' = stopped
    /\ accepted' = IF s.countdown_prompt = NoPrompt THEN NoPrompt ELSE accepted
    /\ last' = l
EndCycle(s, n) == EndCycleWith(s, n, last)
\* the session that ends now, by its keys or by _cancel_countdown
Dispatched == [how |-> "dispatched", prompt |-> accepted, at |-> now]
Cancelled == [how |-> "cancelled", prompt |-> accepted, at |-> now]
\* the cycle ends in _cancel_countdown(reason), which acts only on a countdown
CancelCycle(reason, other) ==
    EndCycleWith(cancel_countdown(self, now), cancel_notice(self, reason, other),
                 IF self.is_in_countdown THEN Cancelled ELSE last)
\* the cycle goes on with the next blocking call
Goto(label, n) ==
pc' = label /\ notice' = n /\ UNCHANGED <<self, stopped, current_time, accepted, last>>
\* the expander never returns
Hangs == pc' = "hung" /\ UNCHANGED <<self, stopped, notice, current_time, accepted, last>>

(***************************************************************************)
(* start_monitoring, up to the loop.                                       *)
(***************************************************************************)
start_monitoring ==
    /\ pc = "init"
    /\ self' = [self EXCEPT !.running = TRUE]
    /\ pc' = "loop"
    /\ UNCHANGED <<enable_sleep_detection, given, returned, stopped, last, fetched, current_time, option, scan, found, wpc,
                   focus, now, keys, notice, parsed, began, accepted, polled>>

\* the loop while is_paused_for_sleep: time.sleep(5.0); continue
paused_loop ==
    /\ pc = "loop" /\ LoopCondition(self) /\ self.is_paused_for_sleep
    /\ UNCHANGED vars

(***************************************************************************)
(* Single-window mode: _monitor_focused_window.                            *)
(***************************************************************************)
\* lines 152-191: the cycle's time, the frontmost application, the focus test
monitor_focused_window ==
    /\ pc = "loop" /\ LoopCondition(self) /\ ~self.is_paused_for_sleep
    /\ ~self.monitor_all
    /\ began' = BeganNow
    /\ keys' = <<>> /\ parsed' = NoPrompt /\ polled' = "unpolled"
    /\ fetched' = <<>>
    /\ IF is_terminal(get_frontmost_app)
       THEN pc' = "text" /\ notice' = "none" /\ current_time' = now /\ UNCHANGED <<self, stopped, accepted, last>>
       ELSE CancelCycle("Terminal lost focus", "none")
    /\ UNCHANGED <<enable_sleep_detection, given, returned, stopped, option, scan, found, wpc, focus, now>>

\* _check_text_for_prompt and line 298-299 of _handle_claude_prompt
check_text_for_prompt(text) ==
    LET recent == RecentOf[text]
        hash == HashOf[text]
        duplicate == /\ self.last_prompt_hash.set
                     /\ self.last_prompt_hash.value = hash
                     /\ ~recently_cancelled(self, now)
        result == PromptOf[recent.text]
    IN  IF self.is_in_countdown \/ now - self.last_response_time < RateLimitSeconds
        THEN EndCycle(self, notice) /\ UNCHANGED <<parsed, found>>
        ELSE IF ~recent.halts
        THEN Hangs /\ UNCHANGED <<parsed, found>>
        ELSE IF duplicate
        THEN EndCycle(self, "Same prompt hash, skipping") /\ UNCHANGED <<parsed, found>>
        ELSE IF ~result.halts
        THEN Hangs /\ UNCHANGED <<parsed, found>>
        ELSE /\ parsed' = result.prompt
             /\ IF result.prompt.is_valid
                THEN /\ self' = start_countdown(
                                  [self EXCEPT !.last_prompt_hash = Set(hash)], now)
                     /\ found' = [prompt |-> result.prompt, window |-> NoWindow]
                     /\ notice' = "Detected Claude Code prompt!"
                     /\ pc' = "start" /\ UNCHANGED last
                     /\ UNCHANGED <<current_time, accepted>>
                ELSE EndCycle(self, notice) /\ UNCHANGED found

\* lines 193-222: the incremental fetch, then the countdown test
monitor_focused_text ==
    /\ pc = "text"
    /\ \E initial_text \in FrontTextResults(INITIAL_SCAN_LINES) :
         LET window_text == IF initial_text.some /\ ~IsEmptyText(initial_text.text)
                            THEN IncrementalOf[initial_text.text]
                            ELSE get_window_text_incremental(initial_text)
         IN  IF IsFalsy(window_text)
             THEN /\ CancelCycle("No window text available", notice)
                  /\ UNCHANGED <<parsed, found>>
             ELSE IF self.is_in_countdown
             THEN Goto("countdown", notice) /\ UNCHANGED <<parsed, found>>
             ELSE check_text_for_prompt(window_text.text)
    /\ UNCHANGED <<enable_sleep_detection, given, returned, stopped, fetched, option, scan, wpc, focus,
                   now, keys, began, polled>>

\* _handle_claude_prompt line 300, _start_multi_window_countdown line 602
handle_claude_prompt ==
    /\ pc = "start"
    /\ self' = [self EXCEPT !.countdown_prompt = found.prompt]
    /\ accepted' = found.prompt
    /\ last' = NoLast
    /\ IF self.monitor_all
       THEN pc' = "start_window" /\ UNCHANGED <<found, current_time>>
       ELSE pc' = "loop" /\ found' = NoFound /\ current_time' = 0
    /\ UNCHANGED <<enable_sleep_detection, given, returned, stopped, fetched, option, scan, wpc, focus,
                   now, keys, notice, parsed, began, polled>>


\* _handle_active_countdown 305-323 and 336-357.  At expiry the option is
\* read off countdown_prompt for send_response, an AttributeError when the
\* prompt is None; the error leaves the loop through stop_monitoring.
handle_active_countdown(window_text, input) ==
    LET current == ParseRecent(window_text)
    IN  IF countdown_elapsed(self, current_time)
        THEN /\ IF self.countdown_prompt = NoPrompt
                THEN /\ self' = stop_monitoring(self)
                     /\ pc' = "crashed" /\ UNCHANGED <<current_time, accepted, last>>
                     /\ stopped' = StoppedAfter(self)
                     /\ notice' = "AttributeError"
                     /\ UNCHANGED option
                ELSE /\ option' = option_to_select(self.countdown_prompt)
                     /\ Goto("final_focus", "Sending response...")
             /\ UNCHANGED <<parsed, polled>>
        ELSE IF ~current.halts
        THEN Hangs /\ UNCHANGED <<parsed, polled, option>>
        ELSE /\ parsed' = current.prompt
             /\ UNCHANGED option
             /\ IF ~current.prompt.is_valid
                THEN /\ CancelCycle("Claude prompt disappeared", notice)
                     /\ UNCHANGED polled
                ELSE /\ polled' = input
                     /\ IF check_escape_key(input)
                        THEN CancelCycle("User cancelled with Escape key", notice)
                        ELSE EndCycle(self, "Auto-responding")

\* lines 213-219: the 500-line fetch and the countdown handler
monitor_focused_countdown ==
    /\ pc = "countdown"
    /\ \E full_text \in FrontTextResults(ValidationLines), input \in StdinResults :
         IF IsFalsy(full_text)
         THEN /\ CancelCycle("Lost terminal text during countdown", notice)
              /\ UNCHANGED <<parsed, polled, option>>
         ELSE handle_active_countdown(full_text.text, input)
    /\ UNCHANGED <<enable_sleep_detection, given, returned, fetched, scan, found, wpc, focus,
                   now, keys, began>>

\* _handle_active_countdown 328-334 when send_response returned False
validation_failed ==
    /\ EndCycleWith([cancel_countdown(self, now) EXCEPT !.is_in_countdown = FALSE,
                                                        !.countdown_prompt = NoPrompt],
                    cancel_notice(self, "Final validation failed before keystroke",
                                  "Final validation failed - aborting keystroke"),
                    IF self.is_in_countdown THEN Cancelled ELSE last)
    /\ option' = "none"

\* send_response: sleep 0.5, then _final_pre_keystroke_validation check 1
final_validation_focus ==
    /\ pc = "final_focus"
    /\ IF is_terminal(get_frontmost_app)
       THEN Goto("final_text", notice) /\ UNCHANGED option
       ELSE validation_failed
    /\ UNCHANGED <<enable_sleep_detection, given, returned, stopped, fetched, scan, found, wpc, focus,
                   now, keys, parsed, began, polled>>

\* _final_pre_keystroke_validation checks 2-4; any exception makes it False
final_validation_text ==
    /\ pc = "final_text"
    /\ \E window_text \in FrontTextResults(ValidationLines) :
         IF IsFalsy(window_text)
         THEN validation_failed /\ UNCHANGED parsed
         ELSE LET current == ParseRecent(window_text.text)
              IN  IF ~current.halts
                  THEN Hangs /\ UNCHANGED <<parsed, option>>
                  ELSE /\ parsed' = current.prompt
                       /\ IF same_prompt(current.prompt, self.countdown_prompt)
                          THEN Goto("send", notice) /\ UNCHANGED option
                          ELSE validation_failed
    /\ UNCHANGED <<enable_sleep_detection, given, returned, stopped, fetched, scan, found, wpc, focus,
                   now, keys, began, polled>>

\* send_response after a passed validation, then lines 325-334
send_response ==
    /\ pc = "send"
    /\ \E run \in KeyRuns(option) : keys' = run
    /\ EndCycleWith([clear_detection_state(self) EXCEPT !.is_in_countdown = FALSE,
                                                        !.countdown_prompt = NoPrompt],
                    "Response sent successfully!", Dispatched)
    /\ option' = "none"
    /\ UNCHANGED <<enable_sleep_detection, given, returned, stopped, fetched, scan, found, wpc, focus,
                   now, parsed, began, polled>>


(***************************************************************************)
(* Multi-window mode: _monitor_all_windows.                                *)
(***************************************************************************)
\* _handle_multi_window_countdown 656-661: the reset after the expiry branch
reset_countdown_state(s) ==
    [clear_detection_state(s) EXCEPT !.is_in_countdown = FALSE,
                                     !.countdown_prompt = NoPrompt,
                                     !.countdown_window_info = NoWindow,
                                     !.original_focused_window = NoWindow]

\* a guard that looks at the flag only when no window is recorded
countdown_unbound(s) == s.is_in_countdown /\ s.countdown_window_info = NoWindow

\* _monitor_all_windows 499: a countdown is active and has its window
countdown_bound(s) == s.is_in_countdown /\ s.countdown_window_info # NoWindow

\* lines 491-509 and _handle_multi_window_countdown 609-614, 664-671
monitor_all_windows ==
    /\ pc = "loop" /\ LoopCondition(self) /\ ~self.is_paused_for_sleep
    /\ self.monitor_all
    /\ began' = BeganNow
    /\ keys' = <<>> /\ parsed' = NoPrompt
    /\ fetched' = <<>>
    /\ IF countdown_bound(self)
       THEN /\ UNCHANGED scan
            /\ IF countdown_elapsed(self, now)
               THEN /\ pc' = "switch" /\ current_time' = now
                    /\ notice' = "Switching to window and sending response..."
                    /\ UNCHANGED <<self, stopped, accepted, last>>
                    /\ polled' = "unpolled"
                    /\ UNCHANGED focus
               ELSE \E input \in StdinStates, restored \in BOOLEAN :
                      /\ polled' = input
                      /\ IF check_escape_key(input)
                         THEN /\ CancelCycle("User cancelled with Escape key", notice)
                              /\ focus' = IF cancel_restores(self, get_frontmost_app) /\ restored
                                          THEN self.original_focused_window
                                          ELSE focus
                         ELSE EndCycle(self, "Auto-responding") /\ UNCHANGED focus
       ELSE /\ \E windows \in {WindowList, <<>>} :
                 /\ scan' = windows
                 /\ IF windows = <<>>
                    THEN EndCycle(self, "none")
                    ELSE pc' = "scan" /\ notice' = "none" /\ current_time' = now
                         /\ UNCHANGED <<self, stopped, accepted, last>>
            /\ polled' = "unpolled"
            /\ UNCHANGED focus
    /\ UNCHANGED <<enable_sleep_detection, given, returned, stopped, option, found, wpc, now>>

\* a scan that takes the windows from the end of the list
window_from_end(windows) == windows[Len(windows)]

\* _monitor_all_windows 513-515: window = windows[i], the next in order
window_to_check(windows) == Head(windows)

\* lines 513-558 for the next window, and _start_multi_window_countdown 600-601
check_window ==
    /\ pc = "scan"
    /\ fetched' = Append(fetched, window_to_check(scan))
    /\ \E window_text \in WindowTextResults(MultiWindowLines) :
         LET window == window_to_check(scan)
             prompt == PromptOf[window_text.text]
             next_window ==
                 /\ scan' = Tail(scan)
                 /\ IF Tail(scan) = <<>> THEN EndCycle(self, notice)
                                         ELSE Goto("scan", notice)
                 /\ UNCHANGED found
         IN  IF IsFalsy(window_text)
             THEN next_window /\ UNCHANGED parsed
             ELSE IF ~prompt.halts
             THEN Hangs /\ UNCHANGED <<parsed, scan, found>>
             ELSE /\ parsed' = prompt.prompt
                  /\ IF prompt.prompt.is_valid
                     THEN /\ self' = start_countdown(self, current_time)
                          /\ found' = [prompt |-> prompt.prompt, window |-> window]
                          /\ notice' = "Detected Claude Code prompt!"
                          /\ scan' = <<>>
                          /\ pc' = "start" /\ UNCHANGED last
                          /\ UNCHANGED <<current_time, accepted>>
                     ELSE next_window
    /\ UNCHANGED <<enable_sleep_detection, given, returned, stopped, option, wpc, focus, now,
                   keys, began, polled>>

\* _start_multi_window_countdown line 603
start_multi_window_countdown ==
    /\ pc = "start_window"
    /\ self' = [self EXCEPT !.countdown_window_info = found.window]
    /\ found' = NoFound
    /\ pc' = "loop"
    /\ current_time' = 0
    /\ UNCHANGED accepted
    /\ UNCHANGED <<enable_sleep_detection, given, returned, stopped, last, fetched, option, scan, wpc, focus,
                   now, keys, notice, parsed, began, polled>>

\* a capture that keeps the handle even when it is the target's
focus_as_found(info, target) == info

\* lines 617-629: the handle to restore, None when the target is in front
focus_to_restore(info, target) == IF info = target THEN NoWindow ELSE info

\* lines 617-632: the focus is captured and the target window focused; a
\* countdown_window_info of None cannot be subscripted (TypeError)
switch_to_window ==
    /\ pc = "switch"
    /\ \E focused \in BOOLEAN :
         LET info == get_frontmost_app
             target == self.countdown_window_info
             original == focus_to_restore(info, target)
         IN  IF target = NoWindow
             THEN /\ self' = stop_monitoring([self EXCEPT !.original_focused_window = info])
                  /\ pc' = "crashed" /\ UNCHANGED <<current_time, accepted, last>>
                  /\ stopped' = StoppedAfter(self)
                  /\ notice' = "TypeError"
                  /\ UNCHANGED focus
             ELSE IF focused
             THEN /\ focus' = target
                  /\ self' = [self EXCEPT !.original_focused_window = original]
                  /\ pc' = "validate"
                  /\ UNCHANGED <<stopped, notice, current_time, accepted, last>>
             ELSE /\ EndCycle(reset_countdown_state(self), "Failed to focus target window")
                  /\ UNCHANGED focus
    /\ UNCHANGED <<enable_sleep_detection, given, returned, fetched, option, scan, found, wpc,
                   now, keys, parsed, began, polled>>

\* _validate_window_prompt, and lines 651-662 when it is False
validate_window_prompt ==
    /\ pc = "validate"
    /\ fetched' = IF self.countdown_window_info = NoWindow THEN fetched
                  ELSE Append(fetched, self.countdown_window_info)
    /\ \E window_text \in WindowTextResults(ValidationLines) :
         LET current == ParseRecent(window_text.text)
             invalid == EndCycle(reset_countdown_state(self),
                                 "Prompt no longer valid in target window")
         IN  IF self.countdown_window_info = NoWindow \/ IsFalsy(window_text)
             THEN invalid /\ UNCHANGED parsed
             ELSE IF ~current.halts
             THEN Hangs /\ UNCHANGED parsed
             ELSE /\ parsed' = current.prompt
                  /\ IF same_prompt(current.prompt, self.countdown_prompt)
                     THEN Goto("send_multi", notice)
                     ELSE invalid
    /\ UNCHANGED <<enable_sleep_detection, given, returned, stopped, option, scan, found, wpc,
                   focus, now, keys, began, polled>>

\* lines 639-662: the keys, the focus restored to the captured handle, the
\* reset; reading the option off a countdown_prompt of None is an
\* AttributeError, and stop_monitoring then restores the focus
send_multi_window_response ==
    /\ pc = "send_multi"
    /\ \E restored \in BOOLEAN :
         LET original == self.original_focused_window
         IN  IF self.countdown_prompt = NoPrompt
             THEN /\ self' = stop_monitoring(self)
                  /\ pc' = "crashed" /\ UNCHANGED <<current_time, accepted, last>>
                  /\ stopped' = StoppedAfter(self)
                  /\ notice' = "AttributeError"
                  /\ focus' = IF /\ self.running /\ self.is_in_countdown
                                 /\ original # NoWindow /\ restored
                              THEN original ELSE focus
                  /\ UNCHANGED keys
             ELSE /\ \E run \in KeyRuns(option_to_select(self.countdown_prompt)) :
                       keys' = run
                  /\ focus' = IF original # NoWindow /\ restored THEN original ELSE focus
                  /\ EndCycleWith(reset_countdown_state(self),
                                  IF original = NoWindow THEN "Response sent successfully"
                                  ELSE IF restored THEN "Restored focus"
                                  ELSE "Could not restore original focus",
                                  Dispatched)
    /\ UNCHANGED <<enable_sleep_detection, given, returned, fetched, option, scan, found, wpc,
                   now, parsed, began, polled>>


(***************************************************************************)
(* The sleep detector's thread: on_sleep and on_wake (start_monitoring     *)
(* 77-87).  on_wake is four stores; the main thread can run between them.  *)
(***************************************************************************)
DetectorStep(from, to, s) ==
    /\ wpc = from
    /\ wpc' = to
    /\ self' = s
    /\ UNCHANGED <<enable_sleep_detection, given, returned, stopped, last, fetched, pc, current_time, option, scan, found,
                   focus, now, keys, notice, parsed, began, accepted, polled>>

on_sleep ==
    /\ enable_sleep_detection /\ self.running
    /\ DetectorStep("awake", "asleep", [self EXCEPT !.is_paused_for_sleep = TRUE])

on_wake ==
    \/ DetectorStep("asleep", "wake1", [self EXCEPT !.is_paused_for_sleep = FALSE])
    \/ DetectorStep("wake1", "wake2", [self EXCEPT !.is_in_countdown = FALSE])
    \/ DetectorStep("wake2", "wake3", [self EXCEPT !.countdown_prompt = NoPrompt])
    \/ DetectorStep("wake3", "awake", [self EXCEPT !.countdown_window_info = NoWindow])

(***************************************************************************)
(* _signal_handler: SIGINT or SIGTERM runs stop_monitoring on the main     *)
(* thread, between two of its steps; the interrupted cycle then runs to    *)
(* its end and the loop's condition fails.                                 *)
(***************************************************************************)
signal_handler ==
    /\ pc # "init"
    /\ self' = stop_monitoring(self)
    /\ stopped' = StoppedAfter(self)
    /\ \E restored \in BOOLEAN :
         focus' = IF /\ self.running
                     /\ self.monitor_all /\ self.is_in_countdown
                     /\ self.original_focused_window # NoWindow /\ restored
                  THEN self.original_focused_window
                  ELSE focus
    /\ UNCHANGED <<enable_sleep_detection, given, returned, last, fetched, pc, current_time, option, scan, found,
                   wpc, now, keys, notice, parsed, began, accepted, polled>>

\* start_monitoring 98, 119-120: the loop's condition fails and the finally
\* clause calls stop_monitoring once more
leave_loop ==
    /\ pc = "loop" /\ ~LoopCondition(self)
    /\ self' = stop_monitoring(self)
    /\ stopped' = StoppedAfter(self)
    /\ pc' = "returned"
    /\ UNCHANGED <<enable_sleep_detection, given, returned, last, fetched, current_time,
                   option, scan, found, wpc, focus, now, keys, notice, parsed, began,
                   accepted, polled>>

(***************************************************************************)
(* The environment: the clock and the user's focus changes.                *)
(***************************************************************************)
\* start_monitoring has returned or raised: the process is over
Exited == pc \in {"crashed", "returned"} \/ (pc = "loop" /\ ~self.running)

Tick ==
    /\ ~Exited
    /\ now < Epoch + MaxTicks
    /\ now' = now + 1
    /\ UNCHANGED <<self, stopped, enable_sleep_detection, given, returned, last, fetched, pc, current_time, option, scan,
                   found, wpc, focus, keys, notice, parsed, began, accepted, polled>>

FocusChange ==
    /\ ~Exited
    /\ \E f \in FocusValues \ {focus} : focus' = f
    /\ UNCHANGED <<self, stopped, enable_sleep_detection, given, returned, last, fetched, pc, current_time, option, scan,
                   found, wpc, now, keys, notice, parsed, began, accepted, polled>>

Next ==
    \/ start_monitoring
    \/ paused_loop
    \/ monitor_focused_window
    \/ monitor_focused_text
    \/ handle_claude_prompt
    \/ monitor_focused_countdown
    \/ final_validation_focus
    \/ final_validation_text
    \/ send_response
    \/ monitor_all_windows
    \/ check_window
    \/ start_multi_window_countdown
    \/ switch_to_window
    \/ validate_window_prompt
    \/ send_multi_window_response
    \/ on_sleep
    \/ on_wake
    \/ signal_handler
    \/ leave_loop
    \/ Tick
    \/ FocusChange

Spec == Init /\ [][Next]_vars

(***************************************************************************)
(* The responder in single-window mode before a terminal that stays        *)
(* focused and holds one dialog: no focus change, no signal, no key; the   *)
(* system may sleep and wake when sleep detection is on.  The loop keeps   *)
(* running its cycles, the detector's thread finishes a callback it has    *)
(* begun, and the clock advances.                                          *)
(***************************************************************************)
LiveInit ==
    /\ self = InitSelf(FALSE)
    /\ enable_sleep_detection \in BOOLEAN
    /\ pc = "init"
    /\ current_time = 0
    /\ option = "none"
    /\ scan = <<>>
    /\ found = NoFound
    /\ wpc = "awake"
    /\ focus \in Windows
    /\ now = Epoch
    /\ keys = <<>>
    /\ notice = "none"
    /\ parsed = NoPrompt
    /\ polled = "unpolled"
    /\ began = NoBegan
    /\ accepted = NoPrompt
    /\ last = NoLast
    /\ fetched = <<>>
    /\ given \in [screen : ValidDialogs]
    /\ returned = <<>>
    /\ stopped = 0

\* a step of the loop of start_monitoring in single-window mode
CycleStep ==
    \/ start_monitoring
    \/ monitor_focused_window
    \/ monitor_focused_text
    \/ handle_claude_prompt
    \/ monitor_focused_countdown
    \/ final_validation_focus
    \/ final_validation_text
    \/ send_response

LiveNext ==
    \/ CycleStep
    \/ paused_loop
    \/ on_sleep
    \/ on_wake
    \/ Tick

LiveSpec ==
    /\ LiveInit /\ [][LiveNext]_vars
    /\ SF_vars(CycleStep) /\ WF_vars(on_wake) /\ WF_vars(Tick)


(***************************************************************************)
(* The parser on its own: parse_prompt applied to a text made of up to     *)
(* MaxBlocks boxes, each holding any of the elements of a dialog, with or  *)
(* without a line outside the boxes that holds them all.                   *)
(***************************************************************************)
MaxBlocks == 2

MaxTools == 3

\* what a box can hold: the confirmation phrase, the marker on option 1, the
\* marker on option 3 (option 1 listed unmarked), a tool's name, and option 2
Elements == {"phrase", "marker1", "marker3", "tool", "option2"}
ElementOrder == <<"tool", "phrase", "marker1", "marker3", "option2">>

\* the tool named in the i-th box of a text: "EDIT File" (a whitelisted
\* name in another case), then "Bash command", then "Bash"
ToolWords(i) ==
    CASE i = 1 -> <<"EDIT", "File">>
      [] i = 2 -> <<"Bash", "command">>
      [] OTHER -> <<"Bash">>

ElementLines(e, i) ==
    CASE e = "phrase" -> << <<"bar", "dyw", "bar">> >>
      [] e = "marker1" -> << <<"bar", "caret", "yes1", "bar">> >>
      [] e = "marker3" -> << <<"bar", "yes1", "bar">>, <<"bar", "caret", "no3", "bar">> >>
      [] e = "tool" -> << <<"bar">> \o ToolWords(i) \o <<"bar">> >>
      [] e = "option2" -> << <<"bar", "opt2", "bar">> >>

RECURSIVE LinesOf(_, _, _)
LinesOf(elements, order, i) ==
    IF order = <<>> THEN <<>>
    ELSE (IF Head(order) \in elements THEN ElementLines(Head(order), i) ELSE <<>>)
         \o LinesOf(elements, Tail(order), i)

\* the i-th box of a text
BlockLines(elements, i) ==
    << <<"top">> >> \o LinesOf(elements, ElementOrder, i) \o << <<"bot">> >>

\* a line outside every box with the phrase, the marked option 1 and the tool
StrayLine == <<"x", "dyw", "caret", "yes1", "EDIT", "File">>

RECURSIVE BlocksLines(_, _)
BlocksLines(blocks, i) ==
    IF i > Len(blocks) THEN <<>>
    ELSE BlockLines(blocks[i], i) \o BlocksLines(blocks, i + 1)

\* the text as the parser gets it: text.split('\n'), one empty line for ""
Render(in) ==
    LET lines == (IF in.stray THEN <<StrayLine>> ELSE <<>>) \o BlocksLines(in.blocks, 1)
    IN  IF lines = <<>> THEN << <<>> >> ELSE lines

\* texts of up to MaxBlocks boxes, parsed with the default whitelist
TextInputs ==
    [stray : BOOLEAN,
     blocks : UNION {[1..n -> SUBSET Elements] : n \in 0..MaxBlocks},
     whitelist : {whitelisted_tools}]

\* entries a whitelist file can hold: two of the same length and one that
\* contains another
ToolNames == {<<"Edit">>, <<"file">>, <<"Edit", "file">>, <<"Bash">>}

\* load_whitelisted_tools: the lines of the file, in order
Whitelists == UNION {[1..n -> ToolNames] : n \in 0..MaxTools}

\* texts of one box, parsed with each whitelist
WhitelistInputs ==
    [stray : BOOLEAN, blocks : [1..1 -> SUBSET Elements], whitelist : Whitelists]

Inputs == TextInputs \cup WhitelistInputs

ParseInit ==
    /\ self = InitSelf(FALSE)
    /\ enable_sleep_detection = FALSE
    /\ pc = "parser"
    /\ current_time = 0
    /\ option = "none"
    /\ scan = <<>>
    /\ found = NoFound
    /\ wpc = "awake"
    /\ focus = "none"
    /\ now = Epoch
    /\ keys = <<>>
    /\ notice = "none"
    /\ parsed = NoPrompt
    /\ polled = "unpolled"
    /\ began = NoBegan
    /\ accepted = NoPrompt
    /\ last = NoLast
    /\ fetched = <<>>
    /\ given \in Inputs
    /\ returned = <<>>
    /\ stopped = 0

\* PromptParser(whitelisted_tools).parse_prompt(text)
parse_input ==
    /\ pc = "parser" /\ parsed = NoPrompt
    /\ LET result == parse_prompt(Render(given), given.whitelist)
       IN  /\ result.halts
           /\ parsed' = result.prompt
    /\ UNCHANGED <<self, stopped, enable_sleep_detection, pc, current_time, option, scan,
                   found, wpc, focus, now, keys, notice, polled, began, accepted,
                   last, fetched, given, returned>>

ParseNext == parse_input

ParseSpec == ParseInit /\ [][ParseNext]_vars

(***************************************************************************)
(* models/prompt.py on its own: a ClaudePrompt built with any field        *)
(* values, has_option2 assigned as _validate_box_content assigns it, and   *)
(* option_to_select read.                                                  *)
(***************************************************************************)
AllPrompts ==
    [is_valid : BOOLEAN, has_do_you_want : BOOLEAN, has_caret_on_option1 : BOOLEAN,
     has_option2 : BOOLEAN, has_box_structure : BOOLEAN,
     detected_tool : {NoTool} \cup {whitelisted_tools[k] : k \in 1..Len(whitelisted_tools)}]

PromptInit ==
    /\ self = InitSelf(FALSE)
    /\ enable_sleep_detection = FALSE
    /\ pc = "prompt"
    /\ current_time = 0
    /\ option = "none"
    /\ scan = <<>>
    /\ found = NoFound
    /\ wpc = "awake"
    /\ focus = "none"
    /\ now = Epoch
    /\ keys = <<>>
    /\ notice = "none"
    /\ parsed \in AllPrompts
    /\ polled = "unpolled"
    /\ began = NoBegan
    /\ accepted = NoPrompt
    /\ last = NoLast
    /\ fetched = <<>>
    /\ given = NoInput
    /\ returned = <<>>
    /\ stopped = 0

\* prompt.option_to_select, read into the caller's variable
read_option_to_select ==
    /\ pc = "prompt"
    /\ option' = option_to_select(parsed)
    /\ UNCHANGED <<self, stopped, enable_sleep_detection, pc, current_time, scan, found,
                   wpc, focus, now, keys, notice, parsed, polled, began, accepted,
                   last, fetched, given, returned>>

\* prompt.has_option2 = ...: the field assigned after construction
assign_has_option2 ==
    /\ pc = "prompt"
    /\ \E b \in BOOLEAN : parsed' = [parsed EXCEPT !.has_option2 = b]
    /\ UNCHANGED <<self, stopped, enable_sleep_detection, pc, current_time, option, scan,
                   found, wpc, focus, now, keys, notice, polled, began, accepted,
                   last, fetched, given, returned>>

PromptNext == read_option_to_select \/ assign_has_option2

PromptSpec == PromptInit /\ [][PromptNext]_vars

(***************************************************************************)
(* A function of the detection layer run on its own: the responder's       *)
(* variables stay as they are after construction.                          *)
(***************************************************************************)
AloneInit(label) ==
    /\ self = InitSelf(FALSE)
    /\ enable_sleep_detection = FALSE
    /\ pc = label
    /\ current_time = 0
    /\ option = "none"
    /\ scan = <<>>
    /\ found = NoFound
    /\ wpc = "awake"
    /\ focus = "none"
    /\ now = Epoch
    /\ keys = <<>>
    /\ notice = "none"
    /\ parsed = NoPrompt
    /\ polled = "unpolled"
    /\ began = NoBegan
    /\ accepted = NoPrompt
    /\ last = NoLast
    /\ fetched = <<>>
    /\ stopped = 0

(***************************************************************************)
(* _extract_claude_boxes on its own, on every text of up to MaxBoxLines    *)
(* lines that are a top border, a bottom border, a content line or a       *)
(* content line showing a border inside the side bars.                     *)
(***************************************************************************)
MaxBoxLines == 6

BoxLineKinds ==
    { <<"top">>, <<"bot">>, <<"bar", "x", "bar">>, <<"bar", "top", "bar">> }

BoxInputs == UNION {[1..n -> BoxLineKinds] : n \in 1..MaxBoxLines}

BoxInit ==
    /\ AloneInit("boxes")
    /\ given \in [lines : BoxInputs]
    /\ returned = <<>>

\* boxes = self._extract_claude_boxes(text)
extract_boxes ==
    /\ pc = "boxes"
    /\ returned' = extract_claude_boxes(given.lines)
    /\ pc' = "extracted"
    /\ UNCHANGED <<self, stopped, enable_sleep_detection, current_time, option, scan,
                   found, wpc, focus, now, keys, notice, parsed, polled, began,
                   accepted, last, fetched, given>>

BoxNext == extract_boxes

BoxSpec == BoxInit /\ [][BoxNext]_vars

(***************************************************************************)
(* _extract_recent_text_dynamic on its own, one iteration of its while     *)
(* loop per step, on texts shorter and longer than MAX_LINES: what opens   *)
(* the text, a number of plain lines, and what ends it.                    *)
(***************************************************************************)
\* how many plain lines more than MAX_LINES a text can have
Overshoot == 2

FillerCounts ==
    {0, 1, 5, 9, 10, 11, 20, 30} \cup {MAX_LINES - 7}
    \cup (MAX_LINES..(MAX_LINES + Overshoot))

\* the top of a dialog
DialogTop == << <<"top">>, <<"bar", "Edit", "file", "bar">>, <<"bar", "dyw", "bar">> >>

\* nothing, or shell output and then the top of a dialog
HeadLines(head) ==
    CASE head = "none" -> <<>>
      [] head = "shell_open" -> << <<"x">>, <<"x">>, <<"x">> >> \o DialogTop

\* a plain line; the marked option 1 and a bottom border; a whole short
\* dialog; a bordered region naming a shell, then the marked option 1 and a
\* bottom border
TailLines(tail) ==
    CASE tail = "plain" -> << <<"x">> >>
      [] tail = "close" -> << <<"bar", "caret", "yes1", "bar">>, <<"bot">> >>
      [] tail = "dialog" ->
            << <<"top">>, <<"bar", "Edit", "file", "bar">>, <<"bar", "dyw", "bar">>,
               <<"bar", "caret", "yes1", "bar">>, <<"bot">> >>
      [] tail = "nested_close" ->
            << <<"top">>, <<"bar", "bash", "bar">>, <<"bot">>,
               <<"bar", "caret", "yes1", "bar">>, <<"bot">> >>

ExpandInputs ==
    [head : {"none", "shell_open"}, filler : FillerCounts,
     tail : {"plain", "close", "dialog", "nested_close"}]

\* lines = text.split('\n')
ExpandText(in) ==
    HeadLines(in.head) \o [i \in 1..in.filler |-> <<"x">>] \o TailLines(in.tail)

\* the texts, worked out once
ExpandTexts == [in \in ExpandInputs |-> ExpandText(in)]

ExpandInit ==
    /\ AloneInit("expander")
    /\ given \in ExpandInputs
    /\ returned = <<>>

ExpandFrame ==
    UNCHANGED <<self, stopped, enable_sleep_detection, current_time, option, scan, found,
                wpc, focus, now, keys, notice, parsed, polled, began, accepted,
                last, fetched, given>>

\* lines 36-37: current_lines = min(INITIAL_LINES, total_lines)
expand_call ==
    /\ pc = "expander"
    /\ returned' = [current_lines |-> Min(INITIAL_LINES, Len(ExpandTexts[given])),
                    text |-> <<>>]
    /\ pc' = "expanding"
    /\ ExpandFrame

\* a pass that sets the window to the step instead of adding the step to it
ExpandPassByStep(lines, current_lines) ==
    LET total_lines == Len(lines)
        recent_text == LastLines(lines, current_lines)
        stepped == Min(Min(EXPANSION_STEP, total_lines), MAX_LINES)
        leave == [return |-> TRUE, current_lines |-> current_lines]
        again == [return |-> FALSE, current_lines |-> stepped]
    IN  IF current_lines > Min(MAX_LINES, total_lines) THEN leave
        ELSE IF ~(HasBoxEndLine(recent_text) /\ HasCaretOption1(recent_text))
        THEN (IF current_lines >= total_lines THEN leave ELSE again)
        ELSE IF HasBoxStartLine(recent_text) /\ HasToolContent(recent_text) THEN leave
        ELSE IF current_lines >= total_lines \/ current_lines >= MAX_LINES THEN leave
        ELSE again

\* one pass through the body of the while loop (45-81): "return" when the
\* loop is left, by return or break or because its condition fails, else
\* the window size the next pass starts with
ExpandPass(lines, current_lines) ==
    LET total_lines == Len(lines)
        recent_text == LastLines(lines, current_lines)
        has_box_end == HasBoxEndLine(recent_text)
        has_option == HasCaretOption1(recent_text)
        grown == Min(Min(current_lines + EXPANSION_STEP, total_lines), MAX_LINES)
        leave == [return |-> TRUE, current_lines |-> current_lines]
        again == [return |-> FALSE, current_lines |-> grown]
    IN  IF current_lines > Min(MAX_LINES, total_lines) THEN leave
        ELSE IF ~(has_box_end /\ has_option)
        THEN (IF current_lines >= total_lines THEN leave ELSE again)
        ELSE IF HasBoxStartLine(recent_text) /\ HasToolContent(recent_text) THEN leave
        ELSE IF current_lines >= total_lines \/ current_lines >= MAX_LINES THEN leave
        ELSE again

\* the window sizes a call on a text of total_lines lines can pass through
WindowSizes(total_lines) ==
    {n \in 1..Min(MAX_LINES, total_lines) :
        \/ n \in {Min(INITIAL_LINES, total_lines), total_lines, MAX_LINES}
        \/ (n - INITIAL_LINES) % EXPANSION_STEP = 0}

\* the passes, worked out once
ExpandPasses ==
    Tabulated([in \in ExpandInputs |->
        Tabulated([n \in WindowSizes(Len(ExpandTexts[in])) |->
                      ExpandPass(ExpandTexts[in], n)])])

\* a pass that ends in "continue" or falls through to line 81
expand_again ==
    /\ pc = "expanding"
    /\ LET pass == ExpandPasses[given][returned.current_lines]
       IN  /\ ~pass.return
           /\ returned' = [returned EXCEPT !.current_lines = pass.current_lines]
    /\ pc' = pc
    /\ ExpandFrame

\* return recent_text (71), or '\n'.join(lines[-current_lines:]) after the loop (84)
expand_return ==
    /\ pc = "expanding"
    /\ LET pass == ExpandPasses[given][returned.current_lines]
       IN  /\ pass.return
           /\ returned' = [returned EXCEPT
                              !.text = LastLines(ExpandTexts[given], returned.current_lines)]
    /\ pc' = "expanded"
    /\ ExpandFrame

ExpandNext == expand_call \/ expand_again \/ expand_return

ExpandSpec == ExpandInit /\ [][ExpandNext]_vars

\* the call runs on: a pass is made whenever one can be made
ExpandLive == ExpandSpec /\ WF_vars(ExpandNext)

(***************************************************************************)
(* parse_prompt on texts that end with one complete valid dialog: shell    *)
(* output or none above it, a body of any length, a bordered region        *)
(* inside the body or none, a body line naming a shell or none.            *)
(***************************************************************************)
\* the longest body of a dialog
LongBody == 40

BodyCounts == {0, 4, 7, 8, 12, 30, LongBody}

\* a bordered region inside the body of a dialog
NestedRegion == << <<"top">>, <<"bar", "x", "bar">>, <<"bot">> >>

DialogInputs ==
    [shell : {0, 3}, body : BodyCounts, nested : {"none", "early", "late"},
     mention : BOOLEAN]

DialogLines(in) ==
    DialogTop
    \o (IF in.nested = "early" THEN NestedRegion ELSE <<>>)
    \o [i \in 1..in.body |-> <<"bar", "x", "bar">>]
    \o (IF in.nested = "late" THEN NestedRegion ELSE <<>>)
    \o (IF in.mention THEN << <<"bar", "bash", "x", "bar">> >> ELSE <<>>)
    \o << <<"bar", "caret", "yes1", "bar">>, <<"bot">> >>

DialogText(in) == [i \in 1..in.shell |-> <<"x">>] \o DialogLines(in)

DialogInit ==
    /\ AloneInit("dialog")
    /\ given \in DialogInputs
    /\ returned = <<>>

\* PromptParser(whitelisted_tools).parse_prompt(text)
parse_dialog ==
    /\ pc = "dialog"
    /\ LET result == parse_prompt(DialogText(given), whitelisted_tools)
       IN  /\ result.halts
           /\ parsed' = result.prompt
    /\ pc' = "parsed"
    /\ UNCHANGED <<self, stopped, enable_sleep_detection, current_time, option, scan,
                   found, wpc, focus, now, keys, notice, polled, began, accepted,
                   last, fetched, given, returned>>

DialogNext == parse_dialog

DialogSpec == DialogInit /\ [][DialogNext]_vars

(***************************************************************************)
(* One parser called three times: on a text, on another text, and on the   *)
(* first text again.                                                       *)
(***************************************************************************)
\* how many calls are made
Calls == 3

\* texts of at most one box, parsed with the default whitelist
ShortInputs ==
    [stray : BOOLEAN, blocks : {<<>>} \cup [1..1 -> SUBSET Elements],
     whitelist : {whitelisted_tools}]

ReparseInit ==
    /\ AloneInit("reparse")
    /\ given \in [first : ShortInputs, second : ShortInputs]
    /\ returned = <<>>

\* the text of the n-th call
CallText(in, n) == Render(IF n = 2 THEN in.second ELSE in.first)

\* self.parser.parse_prompt(text): the next call on the same PromptParser
parse_next_text ==
    /\ pc = "reparse" /\ Len(returned) < Calls
    /\ LET text == CallText(given, Len(returned) + 1)
           previous == IF returned = <<>> THEN ClaudePrompt ELSE returned[Len(returned)]
           prompt == IF IsEmptyText(text) THEN ClaudePrompt
                     ELSE ParseWindowAfter(previous, extract_recent_text(text).text,
                                           whitelisted_tools)
       IN  returned' = Append(returned, prompt)
    /\ UNCHANGED <<self, stopped, enable_sleep_detection, pc, current_time, option, scan,
                   found, wpc, focus, now, keys, notice, parsed, polled, began,
                   accepted, last, fetched, given>>

ReparseNext == parse_next_text

ReparseSpec == ReparseInit /\ [][ReparseNext]_vars

(***************************************************************************)
(* Properties of the responder.                                            *)
(***************************************************************************)
\* the steps of a cycle that is dispatching: final validation and keys in
\* single-window mode; switch, validation and keys in multi-window mode
DispatchSteps == {"final_focus", "final_text", "send", "switch", "validate", "send_multi"}

\* C1: in both modes a key is sent only by the send step of a cycle whose
\* final validation parsed freshly fetched text into a valid prompt naming
\* the tool recorded when the countdown started; a final validation that
\* fails (text unavailable, parse invalid, other tool, focus lost) ends the
\* cycle idle with no key sent.
C1_key_only_after_final_validation ==
    [][ /\ (keys = <<>> /\ keys' # <<>>) =>
              /\ pc \in {"send", "send_multi"}
              /\ parsed # NoPrompt /\ parsed.is_valid
              /\ accepted # NoPrompt
              /\ parsed.detected_tool = accepted.detected_tool
        /\ (pc \in {"final_focus", "final_text", "validate"} /\ pc' = "loop") =>
              /\ keys' = <<>>
              /\ ~self'.is_in_countdown
      ]_vars

\* a cycle has sent its keys after a valid final parse
C1_key_sent == keys # <<>> /\ parsed # NoPrompt /\ parsed.is_valid

\* C2: no step of a dispatch runs in a cycle whose time is less than the
\* delay after the recorded start; and a countdown cycle before the delay
\* whose re-parse is valid (single-window) and whose poll saw no ESC leaves
\* the countdown, its prompt and its start time as they were.
C2_no_dispatch_before_delay ==
    /\ [](pc \in DispatchSteps
            => current_time - self.countdown_start_time >= default_timeout)
    /\ [][ /\ ( /\ monitor_focused_countdown
                /\ self.is_in_countdown
                /\ current_time - self.countdown_start_time < default_timeout
                /\ parsed' # NoPrompt /\ parsed'.is_valid
                /\ polled' \in {"none", "other", "error"} )
              => /\ self'.is_in_countdown
                 /\ self'.countdown_prompt = self.countdown_prompt
                 /\ self'.countdown_start_time = self.countdown_start_time
           /\ ( /\ monitor_all_windows
                /\ self.is_in_countdown /\ self.countdown_window_info # NoWindow
                /\ now - self.countdown_start_time < default_timeout
                /\ polled' \in {"none", "other", "error"} )
              => /\ self'.is_in_countdown
                 /\ self'.countdown_prompt = self.countdown_prompt
                 /\ self'.countdown_start_time = self.countdown_start_time
         ]_vars

\* a countdown has gone through a cycle before its delay and is still running
C2_countdown_continues ==
    /\ pc = "loop" /\ self.is_in_countdown
    /\ began.countdown /\ ~began.expired
    /\ notice = "Auto-responding"
    /\ polled \in {"none", "other", "error"}


\* C3: the responder starts idle with no session, and in either mode a
\* countdown is started only when none is active: the step that sets
\* is_in_countdown and the start time never runs while is_in_countdown is
\* true.
C3_start_only_when_idle ==
    /\ [](pc = "init" =>
            /\ ~self.is_in_countdown
            /\ self.countdown_prompt = NoPrompt
            /\ self.countdown_window_info = NoWindow
            /\ self.original_focused_window = NoWindow
            /\ self.countdown_start_time = 0)
    /\ [][ (pc # "start" /\ pc' = "start") => ~self.is_in_countdown ]_vars

\* C4: a cycle that parses a valid prompt (the rate limit and the duplicate
\* test passed before the parse) starts a countdown in that cycle: the
\* start step sets is_in_countdown and the start time (time.time() in
\* single-window mode, the cycle's time in multi-window mode), the next
\* stores the parsed prompt itself, and in multi-window mode the last
\* stores the window whose text was parsed.
C4_valid_prompt_starts_countdown ==
    [][ /\ (pc \in {"text", "scan"} /\ parsed' # NoPrompt /\ parsed'.is_valid) =>
              /\ pc' = "start"
              /\ self'.is_in_countdown
              /\ self'.countdown_start_time
                   = IF self.monitor_all THEN current_time ELSE now
              /\ found'.prompt = parsed'
              /\ self.monitor_all => found'.window = Head(scan)
        /\ (pc = "start" /\ pc' # "start") =>
              /\ parsed # NoPrompt /\ parsed.is_valid
              /\ self'.countdown_prompt = parsed
              /\ self.monitor_all => pc' = "start_window"
        /\ (pc = "start_window" /\ pc' # "start_window") =>
              /\ found.window \in Windows
              /\ self'.countdown_window_info = found.window
      ]_vars

\* a multi-window cycle has started a countdown: prompt, window and start
\* time are recorded
C4_countdown_started ==
    /\ pc = "loop" /\ self.monitor_all /\ self.is_in_countdown
    /\ ~began.countdown
    /\ parsed # NoPrompt /\ parsed.is_valid
    /\ self.countdown_prompt = parsed
    /\ self.countdown_window_info \in Windows
    /\ self.countdown_start_time >= Epoch

\* C5: in both modes, a cycle that began in a countdown before the delay
\* parses freshly fetched text, and when that parse is not valid it cancels
\* with "Claude prompt disappeared", ends idle with the fingerprint cleared
\* and sends no key; so a countdown that survives such a cycle has been
\* re-parsed as valid in it.
C5_invalid_reparse_cancels ==
    (pc = "loop" /\ began.countdown /\ ~began.expired) =>
        /\ self.is_in_countdown => (parsed # NoPrompt /\ parsed.is_valid)
        /\ (parsed # NoPrompt /\ ~parsed.is_valid) =>
              /\ ~self.is_in_countdown
              /\ notice = "Claude prompt disappeared"
              /\ ~self.last_prompt_hash.set
              /\ keys = <<>>

\* C6: when the poll of a countdown cycle reports ESC while the countdown is
\* active, the cycle ends idle with "User cancelled with Escape key", the
\* session and the fingerprint cleared, the cancellation time recorded and
\* no key sent.
C6_escape_cancels ==
    [][ ( /\ monitor_focused_countdown \/ monitor_all_windows
          /\ self.is_in_countdown
          /\ polled' = "esc" )
        => /\ pc' = "loop"
           /\ ~self'.is_in_countdown
           /\ self'.countdown_prompt = NoPrompt
           /\ notice' = "User cancelled with Escape key"
           /\ ~self'.last_prompt_hash.set
           /\ self'.last_cancellation_time = Set(now)
           /\ keys' = <<>>
      ]_vars

\* a countdown has been cancelled by ESC
C6_user_cancelled ==
    /\ pc = "loop" /\ polled = "esc" /\ began.countdown
    /\ notice = "User cancelled with Escape key"
    /\ ~self.is_in_countdown
    /\ self.last_cancellation_time.set

\* C7: in single-window mode a cycle that finds the frontmost application
\* no terminal (or none nameable) ends at once: it fetches and parses
\* nothing, sends no key, starts no countdown when idle, and cancels an
\* active countdown with "Terminal lost focus", whether or not the delay has
\* elapsed.
C7_unfocused_cycle ==
    [][ (monitor_focused_window /\ focus \notin Windows)
        => /\ pc' = "loop"
           /\ parsed' = NoPrompt
           /\ keys' = <<>>
           /\ ~self'.is_in_countdown
           /\ self.is_in_countdown =>
                 /\ notice' = "Terminal lost focus"
                 /\ self'.countdown_prompt = NoPrompt
           /\ ~self.is_in_countdown => self' = self
      ]_vars

\* an expired countdown has been cancelled by a cycle that found no terminal
\* in front
C7_focus_lost_after_delay ==
    /\ ~self.monitor_all /\ pc = "loop"
    /\ began.countdown /\ began.expired
    /\ focus \notin Windows
    /\ notice = "Terminal lost focus"
    /\ ~self.is_in_countdown /\ keys = <<>>

\* C8: every cycle that began in a countdown with the delay elapsed ends
\* with is_in_countdown false, whatever the outcome of the dispatch (the
\* one countdown it may end in is a new one, started by the cycle itself
\* after a wake reset).
C8_expiry_cycle_ends_idle ==
    (pc \in {"loop", "crashed"} /\ began.countdown /\ began.expired)
        => \/ ~self.is_in_countdown
           \/ notice = "Detected Claude Code prompt!"

\* C9: between cycles, whenever no countdown is active the four session
\* fields are clear: no prompt, no window, no original focus, start time 0.
C9_idle_has_no_session ==
    (pc = "loop" /\ wpc \in {"awake", "asleep"} /\ ~self.is_in_countdown) =>
        /\ self.countdown_prompt = NoPrompt
        /\ self.countdown_window_info = NoWindow
        /\ self.original_focused_window = NoWindow
        /\ self.countdown_start_time = 0

\* C10: between cycles, whenever no countdown is active no fingerprint is
\* stored.
C10_idle_has_no_fingerprint ==
    (pc = "loop" /\ wpc \in {"awake", "asleep"} /\ ~self.is_in_countdown) =>
        ~self.last_prompt_hash.set

\* C11: after a session has ended by its dispatch, a cycle that meets the
\* identical dialog again (the dialogs of the catalogue differ in tool or in
\* option 2, so an equal parse is an identical text) starts no countdown for
\* it, in either mode: the step that starts a countdown never accepts the
\* prompt of the session just dispatched.
C11_dispatched_text_not_retriggered ==
    [][ (pc \in {"text", "scan"} /\ pc' = "start" /\ last.how = "dispatched")
            => parsed' # last.prompt ]_vars

\* C12: once a countdown has been cancelled nothing suppresses the next
\* detection: until the next start no countdown is active, no fingerprint is
\* stored and the rate limit is past; and the cycle that then parses a valid
\* prompt, the cancelled one included, starts a countdown for it.
C12_cancelled_prompt_retriggers ==
    /\ [](last.how = "cancelled" /\ pc # "start" =>
            /\ ~self.is_in_countdown
            /\ ~self.last_prompt_hash.set
            /\ now - self.last_response_time >= RateLimitSeconds)
    /\ [][ ( /\ monitor_focused_text \/ check_window
             /\ last.how = "cancelled"
             /\ parsed' # NoPrompt /\ parsed'.is_valid )
           => /\ pc' = "start"
              /\ self'.is_in_countdown
              /\ found'.prompt = parsed'
         ]_vars

\* a countdown is starting for the very prompt whose countdown was cancelled
C12_cancelled_prompt_accepted ==
    /\ pc = "start" /\ last.how = "cancelled"
    /\ self.is_in_countdown
    /\ found.prompt = last.prompt

\* C13: no countdown starts within RateLimitSeconds of the latest dispatch,
\* whatever valid prompt the cycle has parsed.
C13_no_start_within_rate_limit ==
    [][ (pc \in {"text", "scan"} /\ pc' = "start" /\ last.how = "dispatched")
            => now - last.at >= RateLimitSeconds ]_vars

\* C14: a multi-window scan asks for the windows' texts in the order of the
\* enumeration, one window a step; a window whose text is unavailable or
\* parses invalid is passed over with no field changed; the first valid
\* parse starts a countdown for the window just fetched and ends the scan,
\* so the window stored is the last one examined and a cycle starts at most
\* one countdown.
C14_scan_in_order_first_valid ==
    /\ [](pc = "scan" => fetched \o scan = WindowList)
    /\ []((self.monitor_all /\ pc \in {"start", "start_window"}) =>
            /\ scan = <<>>
            /\ fetched # <<>>
            /\ found.window = fetched[Len(fetched)]
            /\ \A i \in 1..Len(fetched) : fetched[i] = WindowList[i])
    /\ [][ check_window =>
              /\ pc' \in {"scan", "loop", "start"}
              /\ pc' = "start" <=> (parsed' # NoPrompt /\ parsed'.is_valid)
              /\ pc' = "start" =>
                    /\ found' = [prompt |-> parsed', window |-> Head(scan)]
                    /\ scan' = <<>>
              /\ pc' # "start" =>
                    /\ self' = self /\ found' = found
                    /\ scan' = Tail(scan)
                    /\ pc' = "loop" <=> Tail(scan) = <<>>
         ]_vars
    /\ [][ start_multi_window_countdown =>
              self'.countdown_window_info = fetched[Len(fetched)] ]_vars

\* the scan passed over the first window and bound a countdown to the second
C14_second_window_bound ==
    /\ pc = "loop" /\ self.monitor_all /\ self.is_in_countdown
    /\ ~began.countdown
    /\ fetched = WindowList
    /\ self.countdown_window_info = WindowList[2]
    /\ parsed # NoPrompt /\ parsed.is_valid

\* C15: a multi-window cycle that begins with a countdown bound to a window
\* enumerates no windows and scans none; before the delay, with no ESC, it
\* fetches and parses nothing and changes no field of the responder; and an
\* expiry cycle asks for one text at most, that of the bound window.
C15_bound_countdown_polls_no_other ==
    /\ [][ ( /\ monitor_all_windows
             /\ self.is_in_countdown /\ self.countdown_window_info # NoWindow )
           => /\ pc' \in {"loop", "switch"}
              /\ scan' = <<>> /\ fetched' = <<>> /\ parsed' = NoPrompt
              /\ pc' = "switch" => self' = self
              /\ (pc' = "loop" /\ polled' # "esc") => self' = self
         ]_vars
    /\ [](pc \in {"switch", "validate", "send_multi"} =>
             /\ scan = <<>>
             /\ Len(fetched) <= 1)
    /\ [][ (validate_window_prompt /\ self.countdown_window_info # NoWindow)
           => fetched' = <<self.countdown_window_info>> ]_vars

\* an expiry cycle has fetched the text of the bound window, the second of
\* the enumeration, and of no other
C15_only_bound_window_fetched ==
    /\ pc = "send_multi"
    /\ self.countdown_window_info = WindowList[2]
    /\ fetched = <<WindowList[2]>>

\* C16: in multi-window mode original_focused_window is None whenever no
\* expiry cycle is dispatching, at the start of a countdown and while it
\* runs included; the expiry cycle captures it in the step that switches to
\* the target (None when the target is already in front); and the step that
\* sends the keys restores that handle and no other (the focus stays where
\* it is when restore_focus fails or nothing was captured), then clears it.
C16_focus_captured_at_expiry ==
    /\ [](self.original_focused_window # NoWindow =>
             /\ self.monitor_all
             /\ began.countdown /\ began.expired
             /\ pc \in {"validate", "send_multi", "crashed"})
    /\ [][ (switch_to_window /\ pc' = "validate") =>
              /\ self.original_focused_window = NoWindow
              /\ self'.original_focused_window
                   = IF focus = self.countdown_window_info THEN NoWindow ELSE focus
              /\ focus' = self.countdown_window_info
         ]_vars
    /\ [][ (send_multi_window_response /\ keys' # <<>>) =>
              /\ focus' \in {focus, self.original_focused_window}
              /\ self.original_focused_window = NoWindow => focus' = focus
              /\ notice' = "Restored focus" => focus' = self.original_focused_window
              /\ self'.original_focused_window = NoWindow
         ]_vars

\* the keys were sent to the target window and the focus is back on the
\* application that was in front when the expiry cycle switched
C16_focus_restored ==
    /\ pc = "loop" /\ keys # <<>>
    /\ notice = "Restored focus"
    /\ focus = "other"
    /\ self.original_focused_window = NoWindow

\* the notices of the cycles that end on a collaborator's failure: no text
\* from the fetch, a focus switch refused
FailureNotices ==
    {"No window text available", "Lost terminal text during countdown",
     "Failed to focus target window"}

\* C17: a step of a countdown cycle that meets a collaborator failure (the
\* frontmost application unavailable, a fetch returning None, the focus
\* switch refused) ends the cycle between cycles with the loop still
\* running, is_in_countdown false and the four session fields cleared.
C17_failure_ends_idle_and_cleared ==
    [][ ( /\ self.is_in_countdown
          /\ \/ monitor_focused_window /\ focus = "none"
             \/ notice' # notice /\ notice' \in FailureNotices )
        => /\ pc' = "loop"
           /\ self'.running = self.running
           /\ ~self'.is_in_countdown
           /\ self'.countdown_prompt = NoPrompt
           /\ self'.countdown_window_info = NoWindow
           /\ self'.original_focused_window = NoWindow
           /\ self'.countdown_start_time = 0
      ]_vars

\* C18: a step of the sleep detector's thread taken while a cycle is under
\* way (fetching, parsing, starting or dispatching) leaves is_in_countdown,
\* countdown_prompt and countdown_window_info as they were.
C18_notification_writes_no_session ==
    [][ (wpc' # wpc /\ pc \notin {"init", "loop", "crashed"}) =>
           /\ self'.is_in_countdown = self.is_in_countdown
           /\ self'.countdown_prompt = self.countdown_prompt
           /\ self'.countdown_window_info = self.countdown_window_info
      ]_vars

\* C19: a cycle that began in a countdown and sent the keys has polled the
\* cancel key before sending them.
C19_dispatch_cycle_polls_cancel ==
    (pc = "loop" /\ began.countdown /\ keys # <<>>) => polled # "unpolled"

\* what the text turns into when option 2 is taken out of every box
WithoutOption2(in) ==
    [in EXCEPT !.blocks = [i \in 1..Len(in.blocks) |-> in.blocks[i] \ {"option2"}]]

\* C20: parse_prompt returns is_valid = True only if one single box of the
\* text holds the confirmation phrase, the marker directly followed by
\* "1. Yes", and a whitelisted tool's name in any case; a marker on another
\* option, or the three spread over several boxes or lying outside the
\* boxes, never validates; taking option 2 out of a box never changes what
\* the box validates to, nor the validity of a text that fits the first
\* window of INITIAL_LINES lines.
C20_valid_only_from_one_box ==
    parsed # NoPrompt =>
        /\ parsed.is_valid =>
               \E i \in 1..Len(given.blocks) :
                   {"phrase", "marker1", "tool"} \subseteq given.blocks[i]
        /\ \A i \in 1..Len(given.blocks) :
               validate_box_content(BlockLines(given.blocks[i], i), ClaudePrompt,
                                    given.whitelist).ok
               = validate_box_content(BlockLines(given.blocks[i] \ {"option2"}, i),
                                      ClaudePrompt, given.whitelist).ok
        /\ Len(Render(given)) <= INITIAL_LINES =>
               parsed.is_valid =
                   parse_prompt(Render(WithoutOption2(given)),
                                given.whitelist).prompt.is_valid

\* a text of two boxes without option 2 anywhere has been parsed as valid
C20_valid_without_option2 ==
    /\ parsed # NoPrompt /\ parsed.is_valid
    /\ Len(given.blocks) = MaxBlocks
    /\ \A i \in 1..Len(given.blocks) : "option2" \notin given.blocks[i]
    /\ \E i \in 1..Len(given.blocks) : "marker3" \in given.blocks[i]

\* the whitelist entries found in a box, by position in the whitelist
MatchingEntries(box_content, tools) ==
    {k \in 1..Len(tools) : InTextLower(box_content, tools[k])}

\* C21: the detected_tool of a valid prompt is an entry of the whitelist,
\* spelled as in the whitelist, that is found in a box holding the phrase and
\* the marked option 1; no entry found in that box is longer, and of the
\* entries of its length found there it is the earliest in the whitelist.
C21_longest_whitelist_entry ==
    (parsed # NoPrompt /\ parsed.is_valid) =>
        \E i \in 1..Len(given.blocks) :
            LET box == BlockLines(given.blocks[i], i)
                found_in_box == MatchingEntries(box, given.whitelist)
            IN  /\ {"phrase", "marker1"} \subseteq given.blocks[i]
                /\ \E k \in found_in_box :
                       /\ given.whitelist[k] = parsed.detected_tool
                       /\ \A j \in found_in_box :
                              /\ CharLen(given.whitelist[j]) <= CharLen(given.whitelist[k])
                              /\ CharLen(given.whitelist[j]) = CharLen(given.whitelist[k])
                                     => k <= j

\* whitelist ["Edit", "Edit file"] and a box naming "EDIT File": the longer
\* entry has been detected
C21_longer_entry_detected ==
    /\ parsed # NoPrompt /\ parsed.is_valid
    /\ given.whitelist = << <<"Edit">>, <<"Edit", "file">> >>
    /\ parsed.detected_tool = <<"Edit", "file">>

\* C22: whatever the other fields of a ClaudePrompt are, and whatever
\* has_option2 was when option_to_select was read before, every read of
\* option_to_select gives "2" exactly when has_option2 is true at that
\* moment, and "1" otherwise.
C22_option_follows_has_option2 ==
    [][read_option_to_select =>
          /\ option' \in {"1", "2"}
          /\ (option' = "2") <=> parsed.has_option2]_vars

\* option_to_select of an invalid prompt with has_option2 true has been read
\* as "2"
C22_option2_of_invalid_prompt ==
    /\ pc = "prompt" /\ ~parsed.is_valid /\ parsed.has_option2 /\ option = "2"

\* the nesting depth after line i: a top border opens, a bottom border
\* closes what is open
RECURSIVE DepthAfter(_, _)
DepthAfter(lines, i) ==
    IF i = 0 THEN 0
    ELSE LET d == DepthAfter(lines, i - 1)
         IN  IF IsBoxTop(lines[i]) THEN d + 1
             ELSE IF IsBoxBottom(lines[i]) /\ d > 0 THEN d - 1
             ELSE d

\* the lines where a box opens at depth zero and is closed later on
ClosedOpens(lines) ==
    {a \in 1..Len(lines) :
        /\ IsBoxTop(lines[a]) /\ DepthAfter(lines, a - 1) = 0
        /\ \E b \in (a + 1)..Len(lines) : DepthAfter(lines, b) = 0}

\* the line that brings the depth back to zero after the open at line a
CloseOf(lines, a) ==
    CHOOSE b \in (a + 1)..Len(lines) :
        /\ DepthAfter(lines, b) = 0
        /\ \A c \in (a + 1)..(b - 1) : DepthAfter(lines, c) > 0

\* C24: _extract_claude_boxes returns, from top to bottom, exactly the boxes
\* that open at a top border met at depth zero and end at the bottom border
\* that brings the depth back to zero: a box with a whole box inside is one
\* block, and a box that never closes gives no block.
C24_blocks_close_at_depth_zero ==
    pc = "extracted" =>
        LET lines == given.lines
            opens == ClosedOpens(lines)
        IN  /\ Len(returned) = Cardinality(opens)
            /\ \A a \in opens :
                   returned[Cardinality({c \in opens : c <= a})]
                   = SubSeq(lines, a, CloseOf(lines, a))

\* a box with a whole box inside it, followed by a box that never closes,
\* has come out as the one outer block
C24_nested_box_is_one_block ==
    /\ pc = "extracted"
    /\ given.lines = << <<"top">>, <<"top">>, <<"bot">>, <<"bot">>, <<"top">>,
                        <<"bar", "x", "bar">> >>
    /\ returned = << SubSeq(given.lines, 1, 4) >>

\* the line of the text at which its i-th box opens
RECURSIVE TopLineOf(_, _)
TopLineOf(in, i) ==
    IF i = 1 THEN (IF in.stray THEN 2 ELSE 1)
    ELSE TopLineOf(in, i - 1) + Len(BlockLines(in.blocks[i - 1], i - 1))

\* the boxes of the text that lie in the window parse_prompt works on and
\* hold the phrase, the marked option 1 and a whitelisted tool
PassingBlocks(in) ==
    LET text == Render(in)
        window == extract_recent_text(text).text
    IN  {i \in 1..Len(in.blocks) :
            /\ TopLineOf(in, i) > Len(text) - Len(window)
            /\ {"phrase", "marker1"} \subseteq in.blocks[i]
            /\ MatchingEntries(BlockLines(in.blocks[i], i), in.whitelist) # {}}

\* C23: a valid prompt carries the detected_tool and has_option2 of the
\* first box, from the top of the window, that passes all the checks; boxes
\* that failed before it and boxes after it leave the two fields alone.
C23_fields_of_first_passing_box ==
    (parsed # NoPrompt /\ parsed.is_valid) =>
        /\ PassingBlocks(given) # {}
        /\ LET first == CHOOSE i \in PassingBlocks(given) :
                            \A j \in PassingBlocks(given) : i <= j
               box == BlockLines(given.blocks[first], first)
           IN  /\ parsed.has_option2 = ("option2" \in given.blocks[first])
               /\ parsed.detected_tool = detect_tool_in_box(box, given.whitelist)

\* a box with phrase, marked option 1 and option 2 but no tool has failed,
\* and the prompt has the fields of the box after it
C23_failed_box_left_no_trace ==
    /\ parsed # NoPrompt /\ parsed.is_valid
    /\ given.blocks = <<{"phrase", "marker1", "option2"}, {"tool", "phrase", "marker1"}>>
    /\ ~parsed.has_option2
    /\ parsed.detected_tool = <<"Bash", "command">>

\* C25: on every text, also one of more than MAX_LINES lines and one that
\* never shows a bottom border and a marked option 1, the call returns, and
\* what it returns is the last lines of the text, at most MAX_LINES of them.
C25_expand_returns_bounded_tail ==
    /\ <>(pc = "expanded")
    /\ [](pc = "expanded" =>
             /\ Len(returned.text) <= MAX_LINES
             /\ returned.text = LastLines(ExpandTexts[given], Len(returned.text)))

\* C26: from one pass of the loop to the next the window never gets
\* smaller, so each window is the previous one with lines added above it.
C26_window_never_shrinks ==
    [][(pc = "expanding" /\ pc' \in {"expanding", "expanded"}) =>
          LET lines == ExpandTexts[given]
          IN  /\ returned'.current_lines >= returned.current_lines
              /\ LastLines(LastLines(lines, returned'.current_lines),
                           returned.current_lines)
                 = LastLines(lines, returned.current_lines)
              /\ pc' = "expanded" => returned'.text = LastLines(lines, returned.current_lines)]_vars

\* a window that has grown twice has been returned
C26_window_grown_twice ==
    /\ pc = "expanded"
    /\ Len(returned.text) = INITIAL_LINES + 2 * EXPANSION_STEP
    /\ Len(ExpandTexts[given]) > Len(returned.text)

\* C27: a text that ends with a complete valid dialog of at most MAX_LINES
\* lines, with or without a bordered region inside it, is parsed as valid
\* however many lines the dialog has.
C27_trailing_dialog_is_valid ==
    (pc = "parsed" /\ Len(DialogLines(given)) <= MAX_LINES) => parsed.is_valid

KeyNames(sent) == [i \in 1..Len(sent) |-> sent[i].key]

\* what send_response may send for an option
SentAsFor(opt, sent) ==
    IF opt = "2"
    THEN \/ KeyNames(sent) = <<"2", "enter">> /\ sent[1].ok
         \/ KeyNames(sent) = <<"2", "down", "enter">> /\ ~sent[1].ok
    ELSE KeyNames(sent) = <<"enter">>

\* C29: the keys of a dispatch are "2" then "enter" for option "2", with
\* "down" in between exactly when "2" failed, and "enter" alone for option
\* "1"; with the final-validation callback (single-window mode) no key is
\* sent while the validation runs, the send step is entered only by a
\* validation that returned true, and a validation that fails sends nothing.
C29_keys_in_order_after_validation ==
    [][ /\ send_response => option \in {"1", "2"} /\ SentAsFor(option, keys')
        /\ (send_multi_window_response /\ keys' # <<>>) =>
              SentAsFor(option_to_select(self.countdown_prompt), keys')
        /\ keys' # keys /\ keys' # <<>> => send_response \/ send_multi_window_response
        /\ (pc # "send" /\ pc' = "send") =>
              /\ pc = "final_text" /\ keys' = <<>>
              /\ parsed' # NoPrompt /\ same_prompt(parsed', self.countdown_prompt)
        /\ (pc \in {"final_focus", "final_text"} /\ pc' # "send") => keys' = <<>>
      ]_vars

\* option "2" has been dispatched in single-window mode, its key "2" failed
\* and "down" was tried before "enter"
C29_down_tried_after_failed_2 ==
    /\ ~self.monitor_all /\ last.how = "dispatched" /\ pc = "loop"
    /\ KeyNames(keys) = <<"2", "down", "enter">> /\ ~keys[1].ok

\* a step in which stop_monitoring is called: by the signal handler, by the
\* finally clause after the loop, or by the finally clause after an error
StopCalled == signal_handler \/ leave_loop \/ (pc # "crashed" /\ pc' = "crashed")

\* C30: a call of stop_monitoring leaves running false and the stop event
\* set, and they stay so; from then on no monitoring cycle begins; the
\* stopped notice is printed by the first call and never again; and a call
\* after the first changes nothing (the error that brought a later call
\* about still prints its own notice).
C30_stopped_once_and_for_all ==
    /\ [][ StopCalled => ~self'.running /\ self'.stop_event /\ stopped' = 1 ]_vars
    /\ [](stopped >= 1 => ~self.running /\ self.stop_event /\ stopped = 1)
    /\ [][ stopped >= 1 =>
              /\ ~(monitor_focused_window \/ monitor_all_windows)
              /\ pc = "loop" => pc' \in {"loop", "returned"} ]_vars
    /\ [][ ((signal_handler \/ leave_loop) /\ stopped >= 1) =>
              UNCHANGED <<self, stopped, focus, notice, keys>> ]_vars
    /\ [][ (StopCalled /\ stopped >= 1) => UNCHANGED <<stopped, focus, keys>> ]_vars

\* a signal has stopped the responder in a countdown, and the loop has been
\* left through the finally clause, which called stop_monitoring again
C30_stopped_in_countdown_and_left ==
    /\ pc = "returned" /\ stopped = 1
    /\ self.is_in_countdown /\ ~self.running /\ self.stop_event

\* C31: whatever the detector's thread does in between, the loop has not
\* been left through an error raised on a cleared session, and between two
\* cycles a countdown that is on has its prompt and, in multi-window mode,
\* its window.
C31_countdown_has_its_session ==
    /\ pc # "crashed"
    /\ (pc = "loop" /\ self.is_in_countdown) =>
          /\ self.countdown_prompt # NoPrompt
          /\ self.monitor_all => self.countdown_window_info # NoWindow

\* the countdown that is on can still expire before the clock is let go
CanExpire == self.countdown_start_time + default_timeout <= Epoch + MaxTicks

\* C32: with no sleep and wake, a valid dialog held on the focused, readable
\* terminal with no key pressed gets its countdown, and a countdown that
\* is on between two cycles ends in the dispatch of its prompt's option.
C32_held_dialog_is_answered ==
    ~enable_sleep_detection =>
        /\ <>(self.is_in_countdown /\ self.countdown_prompt # NoPrompt)
        /\ [](pc = "loop" /\ self.is_in_countdown /\ CanExpire
                => <>(/\ last.how = "dispatched"
                      /\ SentAsFor(option_to_select(last.prompt), keys)))

\* C33: with no sleep and wake, the held dialog of more lines than the first
\* fetch gets its countdown started by an idle cycle.
C33_long_dialog_is_detected ==
    (~enable_sleep_detection /\ given.screen = LongDialog) => <>(pc = "start")

\* on_wake has just switched off a countdown that was on
WakeReset ==
    /\ wpc = "wake2" /\ pc = "loop" /\ last.how = "none"
    /\ ~self.is_in_countdown /\ self.countdown_prompt # NoPrompt

\* C34: after on_wake has switched off the countdown of a held dialog that
\* fits in the first fetch, an idle cycle starts a countdown for it again.
C34_countdown_again_after_wake ==
    given.screen \in Screens => [](WakeReset => <>(pc = "start"))

\* C35: whenever keys are sent, they are the keys of option_to_select of the
\* prompt the final validation parsed (parsed), in either mode: a dialog
\* that gained or lost its second option during the countdown is answered
\* with the option of the dialog displayed at dispatch time.
C35_dispatched_option_is_validated ==
    keys # <<>> => parsed # NoPrompt /\ SentAsFor(option_to_select(parsed), keys)

\* C36: in multi-window mode, when the expiry handler has focused the target
\* from another window (original_focused_window is recorded) and the cycle
\* returns to the loop, the focus is back on the recorded window, or the
\* restore was tried and failed: also when the prompt is no longer valid in
\* the target window and nothing is sent.
C36_focus_restored_after_expiry ==
    [][(/\ pc \in {"validate", "send_multi"} /\ pc' = "loop"
        /\ self.original_focused_window # NoWindow)
          => \/ focus' = self.original_focused_window
             \/ notice' = "Could not restore original focus"]_vars

\* the complete boxes of the window parse_prompt looks at
WindowBoxes(in) == extract_claude_boxes(extract_recent_text(Render(in)).text)
\* some complete box of the window holds the confirmation phrase
PhraseInSomeBox(in) ==
    \E k \in 1..Len(WindowBoxes(in)) : HasDoYouWant(WindowBoxes(in)[k])

\* C37 as stated: has_box_structure of the returned prompt is true exactly
\* when some extracted complete box contains the confirmation phrase,
\* whatever the marker and whitelist checks say.
C37_box_flag_iff_phrase_in_box ==
    parsed # NoPrompt => (parsed.has_box_structure <=> PhraseInSomeBox(given))

\* C37 amended: has_box_structure is true exactly when the window shows the
\* marked option 1 somewhere (inside a box or not) and some complete box of
\* the window contains the confirmation phrase; the marker check and the
\* whitelist check inside the box do not change it.
C37_box_flag_iff_marker_and_phrase_in_box ==
    parsed # NoPrompt =>
        (parsed.has_box_structure <=>
            /\ HasCaretOption1(extract_recent_text(Render(given)).text)
            /\ PhraseInSomeBox(given))

\* a box with the phrase alone, the marked option 1 only outside it: the
\* prompt is invalid and has the flag
C37_flag_set_on_failed_box ==
    /\ parsed # NoPrompt /\ ~parsed.is_valid /\ parsed.has_box_structure
    /\ given.stray /\ given.blocks = <<{"phrase"}>>

\* C38 as stated: the poll of a countdown cycle ends within the cycle; it
\* reports no cancel when no byte is waiting, and when a byte is waiting it
\* reads it and the countdown is cancelled in that cycle, whatever the byte.
C38_any_pending_input_cancels ==
    [][ ( /\ monitor_focused_countdown \/ monitor_all_windows
          /\ self.is_in_countdown
          /\ polled' # "unpolled" )
        => /\ pc' = "loop"
           /\ polled' \in {"esc", "other"} <=>
                  (~self'.is_in_countdown /\ notice' = "User cancelled with Escape key")
      ]_vars

\* C38 amended: the poll of a countdown cycle ends within the cycle; the
\* countdown is cancelled by it exactly when the byte read is ESC; with no
\* byte waiting, with another byte read, or with select or termios failing,
\* the countdown goes on unchanged and no key is sent.
C38_only_escape_cancels ==
    [][ ( /\ monitor_focused_countdown \/ monitor_all_windows
          /\ self.is_in_countdown
          /\ polled' # "unpolled" )
        => /\ pc' = "loop"
           /\ polled' = "esc" <=>
                  (~self'.is_in_countdown /\ notice' = "User cancelled with Escape key")
           /\ polled' # "esc" => self' = self /\ keys' = <<>>
      ]_vars

\* a cycle of a countdown has read a byte other than ESC and the countdown
\* goes on
C38_other_byte_read_countdown_on ==
    /\ pc = "loop" /\ polled = "other" /\ began.countdown
    /\ self.is_in_countdown /\ notice = "Auto-responding"

\* C39: when send_key failed for the confirmation key ("enter"),
\* send_response returns False and the cycle does not end as a response
\* sent: no "Response sent successfully" and no dispatched session.
C39_failed_enter_is_not_a_response ==
    (pc = "loop" /\ keys # <<>> /\ ~keys[Len(keys)].ok) =>
        /\ last.how # "dispatched"
        /\ notice \notin {"Response sent successfully!", "Response sent successfully",
                          "Restored focus"}

\* the longest window whose prompt is compared
ParsedLines == 45

\* C40: on every text on which _extract_recent_text returns, applying it to
\* the window it returned returns that same window, and parse_prompt of
\* the window (the expander applied a second time, as _check_text_for_prompt
\* and both validations do) is the prompt parse_prompt gives for the text.
C40_expand_of_window_is_window ==
    pc = "expanded" =>
        LET again == extract_recent_text(returned.text)
        IN  /\ again.halts
            /\ again.text = returned.text
            /\ Len(returned.text) <= ParsedLines =>
                   parse_prompt(returned.text, whitelisted_tools)
                      = parse_prompt(ExpandTexts[given], whitelisted_tools)

\* a window grown past its first size and shorter than the text has been
\* returned, and holds a valid dialog
C40_grown_window_of_longer_text ==
    /\ pc = "expanded"
    /\ INITIAL_LINES < Len(returned.text)
    /\ Len(returned.text) < Len(ExpandTexts[given])
    /\ Len(returned.text) <= ParsedLines
    /\ parse_prompt(returned.text, whitelisted_tools).prompt.is_valid

====
